---- MODULE Spec2Model ----
(***************************************************************************)
(* A model of joint-core's dia.Graph (packages/joint-core/src/dia/         *)
(* Graph.mjs): the adjacency index kept in step with the cell collection,  *)
(* the named batch counters, and the cell lifecycle operations.            *)
(*                                                                         *)
(* A graph state is handled as a record g with the fields of the Graph     *)
(* object (cells, _out, _in, _nodes, _edges, _batches); every method is an *)
(* operator from graph states to graph states, and every action applies    *)
(* one public call to the current state, run to completion (the code is    *)
(* synchronous and single-threaded).                                       *)
(***************************************************************************)
EXTENDS Integers, Sequences, FiniteSets, TLC

VARIABLES cellCollection, _out, _in, _nodes, _edges, _batches, op, calls

vars == <<cellCollection, _out, _in, _nodes, _edges, _batches, op, calls>>

(***************************************************************************)
(* Bounds of the model.                                                    *)
(***************************************************************************)
\* number of ids that are used for elements
NumElems == 1
\* number of ids that are used for links
NumLinks == 2
\* the lists handed to the bulk operations have at most this many cells
MaxLen == 2
\* the environment calls startBatch at most MaxDepth times and stopBatch at
\* most MaxDepth times per batch name
MaxDepth == 2
\* a bulk operation whose batch is already open MaxOpen times is not called
MaxOpen == 1
\* the number of ids further elements may take
NumSpare == 2
\* the number of ids a further link may take
NumSpareLinks == 1
\* the number of ids the elements at the far end of a chain may take
NumFar == 1

(***************************************************************************)
(* Cells.  An endpoint descriptor is modelled by the id it carries; NoId   *)
(* stands for a descriptor without id (a point such as {x:0,y:0}, or {}).  *)
(***************************************************************************)
NoId == 0

ElemIds == 1 .. NumElems
LinkIds == (NumElems + 1) .. (NumElems + NumLinks)
\* ids a further element may take
SpareIds == (NumElems + NumLinks + 1) .. (NumElems + NumLinks + NumSpare)
\* ids a further link may take
SpareLinkIds ==
    (NumElems + NumLinks + NumSpare + 1) .. (NumElems + NumLinks + NumSpare + NumSpareLinks)
\* ids an element at the far end of a chain may take
FarIds ==
    (NumElems + NumLinks + NumSpare + NumSpareLinks + 1)
        .. (NumElems + NumLinks + NumSpare + NumSpareLinks + NumFar)
Ids == ElemIds \cup LinkIds \cup SpareIds \cup SpareLinkIds \cup FarIds
Endpoints == ElemIds \cup LinkIds \cup {NoId}

\* the values of the `type` attribute: two string types, resolved by the
\* cell namespace to an element and to a link class, and a non-string value
ElementType == "standard.Rectangle"
LinkType == "standard.Link"
Undefined == "<undefined>"

\* a cell (or a cell init) is its attribute map: a record with the keys it
\* carries.  Elements carry no source/target; a link carries both (the link
\* class defaults them to {}).
Element(i) == [id |-> i, type |-> ElementType]
Link(i, s, t) == [id |-> i, type |-> LinkType, source |-> s, target |-> t]
\* an init whose type is present but is no string
Untyped(i) == [id |-> i, type |-> Undefined]
\* an init that carries no type key
Typeless(i) == [id |-> i]

\* what the collection's get(id) returns for an id it does not hold
NoCell == [undefined |-> TRUE]

\* the cell inits the environment passes in
ValidInits == {Element(i) : i \in ElemIds}
                \cup {Link(i, s, t) : i \in LinkIds, s \in Endpoints, t \in Endpoints}
InvalidInits ==
    {Untyped(i) : i \in ElemIds \cup LinkIds} \cup {Typeless(i) : i \in ElemIds \cup LinkIds}
CellInits == ValidInits \cup InvalidInits

typeOf(attrs) == IF "type" \in DOMAIN attrs THEN attrs.type ELSE Undefined
isString(t) == t # Undefined
isLink(cell) == typeOf(cell) = LinkType
isElement(cell) == isString(typeOf(cell)) /\ ~isLink(cell)

(***************************************************************************)
(* Generic helpers.                                                        *)
(***************************************************************************)
Min(S) == CHOOSE x \in S : \A y \in S : x <= y

RECURSIVE forIn(_)
\* the keys of a bucket in enumeration order (ascending ids)
forIn(S) == IF S = {} THEN <<>> ELSE <<Min(S)>> \o forIn(S \ {Min(S)})

SeqsUpTo(S, n) == UNION {[1 .. k -> S] : k \in 0 .. n}

\* F applied to the value of v, v being evaluated once
With(v, F(_)) == CHOOSE y \in {F(x) : x \in {v}} : TRUE

(***************************************************************************)
(* The graph state as one record.                                          *)
(***************************************************************************)
\* events is the sequence of the events triggered and of the internal calls
\* made since the public call in progress began
Graph(c, o, i, n, e, b) ==
    [cells |-> c, _out |-> o, _in |-> i, _nodes |-> n, _edges |-> e, _batches |-> b,
     events |-> <<>>]

\* this.trigger(name, arg), and the record of an internal call
trigger(g, name, arg) == [g EXCEPT !.events = Append(@, <<name, arg>>)]

this == Graph(cellCollection, _out, _in, _nodes, _edges, _batches)

EmptyBuckets == [n \in Ids |-> {}]

NoBatches == [b \in {} |-> 0]
\* initialize: empty collection, empty index, no batch
NewGraph == Graph([i \in Ids |-> NoCell], EmptyBuckets, EmptyBuckets, {}, {}, NoBatches)

\* cellCollection.get(id)
getCell(g, id) == IF id \in Ids THEN g.cells[id] ELSE NoCell
has(g, id) == getCell(g, id) # NoCell

(***************************************************************************)
(* The adjacency index: the handlers of the collection's events.           *)
(* A bucket _out[n] / _in[n] is the set of the keys of the object the code *)
(* keeps under n; a bucket the code has not created yet is the empty set   *)
(* (every read in the code treats the two alike).                          *)
(***************************************************************************)
_restructureOnAdd(g, cell) ==
    IF isLink(cell)
    THEN [g EXCEPT !._edges = @ \cup {cell.id},
                   !._out = IF cell.source # NoId
                            THEN [@ EXCEPT ![cell.source] = @ \cup {cell.id}]
                            ELSE @,
                   !._in = IF cell.target # NoId
                           THEN [@ EXCEPT ![cell.target] = @ \cup {cell.id}]
                           ELSE @]
    ELSE [g EXCEPT !._nodes = @ \cup {cell.id}]

\* _restructureOnRemove that leaves a removed link in _edges
_restructureOnRemove_keepsEdge(g, cell) ==
    IF isLink(cell)
    THEN [g EXCEPT !._out = IF cell.source # NoId
                            THEN [@ EXCEPT ![cell.source] = @ \ {cell.id}]
                            ELSE @,
                   !._in = IF cell.target # NoId
                           THEN [@ EXCEPT ![cell.target] = @ \ {cell.id}]
                           ELSE @]
    ELSE [g EXCEPT !._nodes = @ \ {cell.id}]

\* _restructureOnRemove with the deletion from the _in bucket left out
_restructureOnRemove_keepsIn(g, cell) ==
    IF isLink(cell)
    THEN [g EXCEPT !._edges = @ \ {cell.id},
                   !._out = IF cell.source # NoId
                            THEN [@ EXCEPT ![cell.source] = @ \ {cell.id}]
                            ELSE @]
    ELSE [g EXCEPT !._nodes = @ \ {cell.id}]

_restructureOnRemove(g, cell) ==
    IF isLink(cell)
    THEN [g EXCEPT !._edges = @ \ {cell.id},
                   !._out = IF cell.source # NoId
                            THEN [@ EXCEPT ![cell.source] = @ \ {cell.id}]
                            ELSE @,
                   !._in = IF cell.target # NoId
                           THEN [@ EXCEPT ![cell.target] = @ \ {cell.id}]
                           ELSE @]
    ELSE [g EXCEPT !._nodes = @ \ {cell.id}]

RECURSIVE forEachRestructureOnAdd(_, _)
\* cells.forEach(this._restructureOnAdd, this)
forEachRestructureOnAdd(g, models) ==
    IF models = <<>> THEN g
    ELSE With(_restructureOnAdd(g, Head(models)), LAMBDA g1 :
            forEachRestructureOnAdd(g1, Tail(models)))

\* _restructureOnReset that keeps the _in buckets of the previous content
_restructureOnReset_keepsIn(g, models) ==
    forEachRestructureOnAdd(
        [g EXCEPT !._out = EmptyBuckets, !._nodes = {}, !._edges = {}],
        models)

\* `models` is collection.models, the cells of the collection in its order
_restructureOnReset(g, models) ==
    forEachRestructureOnAdd(
        [g EXCEPT !._out = EmptyBuckets, !._in = EmptyBuckets,
                  !._nodes = {}, !._edges = {}],
        models)

\* _restructureOnChangeSource that takes the link out of the previous target's
\* bucket as well
_restructureOnChangeSource_touchesIn(g, link, prevSource) ==
    With(IF prevSource # NoId
         THEN [g EXCEPT !._out[prevSource] = @ \ {link.id},
                        !._in = [n \in Ids |-> @[n] \ {link.id}]]
         ELSE g, LAMBDA g1 :
        IF link.source # NoId
        THEN [g1 EXCEPT !._out[link.source] = @ \cup {link.id}]
        ELSE g1)

\* `link` holds the new attributes, prevSource is link.previous('source')
_restructureOnChangeSource(g, link, prevSource) ==
    With(IF prevSource # NoId
         THEN [g EXCEPT !._out[prevSource] = @ \ {link.id}]
         ELSE g, LAMBDA g1 :
        IF link.source # NoId
        THEN [g1 EXCEPT !._out[link.source] = @ \cup {link.id}]
        ELSE g1)

\* _restructureOnChangeTarget with the insertion into the new bucket left out
_restructureOnChangeTarget_noInsert(g, link, prevTarget) ==
    IF prevTarget # NoId
    THEN [g EXCEPT !._in[prevTarget] = @ \ {link.id}]
    ELSE g

_restructureOnChangeTarget(g, link, prevTarget) ==
    With(IF prevTarget # NoId
         THEN [g EXCEPT !._in[prevTarget] = @ \ {link.id}]
         ELSE g, LAMBDA g1 :
        IF link.target # NoId
        THEN [g1 EXCEPT !._in[link.target] = @ \cup {link.id}]
        ELSE g1)

getOutboundEdges(g, node) == IF node \in Ids THEN g._out[node] ELSE {}

getInboundEdges(g, node) == IF node \in Ids THEN g._in[node] ELSE {}

(***************************************************************************)
(* The batch counters.  _batches is the object of the code: a function     *)
(* whose domain is the set of names used so far.                           *)
(***************************************************************************)
\* this._batches[name] || 0
batchCount(g, name) == IF name \in DOMAIN g._batches THEN g._batches[name] ELSE 0

setBatchCount(g, name, n) ==
    [g EXCEPT !._batches = [b \in DOMAIN @ \cup {name} |-> IF b = name THEN n ELSE @[b]]]

\* startBatch that also closes every other batch
startBatch_closesOthers(g, name) ==
    trigger([g EXCEPT !._batches =
                [b \in DOMAIN @ \cup {name} |->
                    IF b = name THEN batchCount(g, name) + 1 ELSE 0]],
            "batch:start", name)

startBatch(g, name) ==
    trigger(setBatchCount(g, name, batchCount(g, name) + 1), "batch:start", name)

\* stopBatch that does not count below zero
stopBatch_clamped(g, name) ==
    trigger(setBatchCount(g, name,
                IF batchCount(g, name) > 0 THEN batchCount(g, name) - 1 ELSE 0),
            "batch:stop", name)

stopBatch(g, name) ==
    trigger(setBatchCount(g, name, batchCount(g, name) - 1), "batch:stop", name)

\* someActive that takes every non-zero counter as active
someActive_nonZero(g, names) == \E b \in names : b \in DOMAIN g._batches /\ g._batches[b] # 0

\* names.some((batch) => batches[batch] > 0); a name without counter
\* compares as undefined > 0, which is false
someActive(g, names) == \E b \in names : b \in DOMAIN g._batches /\ g._batches[b] > 0

\* hasActiveBatch() without argument: names = Object.keys(batches)
hasActiveBatchAny(g) == someActive(g, DOMAIN g._batches)

\* hasActiveBatch(name) is hasActiveBatch([name])
hasActiveBatch(g, names) == someActive(g, names)

(***************************************************************************)
(* The cell collection and the cell models (mvc collaborators of the       *)
(* graph): an id-keyed store that emits add / remove / reset /             *)
(* change:source / change:target synchronously, each event running the     *)
(* handlers the graph registered in initialize, in registration order.     *)
(***************************************************************************)
\* Object.assign({}, a, b)
assign(a, b) ==
    [k \in DOMAIN a \cup DOMAIN b |-> IF k \in DOMAIN b THEN b[k] ELSE a[k]]

\* the model the collection builds from an attribute map
modelOf(attrs) ==
    IF isLink(attrs) THEN assign([source |-> NoId, target |-> NoId], attrs) ELSE attrs

\* cellCollection.add(cell): an id the collection already holds is ignored;
\* otherwise the cell is stored and 'add' runs _restructureOnAdd
collectionAdd(g, attrs) ==
    IF has(g, attrs.id) THEN g
    ELSE With(modelOf(attrs), LAMBDA cell :
            _restructureOnAdd(trigger([g EXCEPT !.cells[cell.id] = cell], "add", cell),
                              cell))

\* cellCollection.remove(cell, { silent: true })
collectionRemoveSilent(g, id) == [g EXCEPT !.cells[id] = NoCell]

RECURSIVE uniqueById(_, _)
\* the models a list of inits yields: the first init of every id
uniqueById(inits, seen) ==
    IF inits = <<>> THEN <<>>
    ELSE IF Head(inits).id \in seen THEN uniqueById(Tail(inits), seen)
    ELSE <<modelOf(Head(inits))>> \o uniqueById(Tail(inits), seen \cup {Head(inits).id})

\* the content of a collection that holds `models`
held(models) ==
    [i \in Ids |-> IF \E k \in 1 .. Len(models) : models[k].id = i
                   THEN models[CHOOSE k \in 1 .. Len(models) : models[k].id = i]
                   ELSE NoCell]

\* cellCollection.reset(models): replaces the content, then 'reset' runs
\* _restructureOnReset on the collection
collectionReset(g, inits) ==
    With(uniqueById(inits, {}), LAMBDA models :
        _restructureOnReset(trigger([g EXCEPT !.cells = held(models)], "reset", NoId),
                            models))

\* getCells(): the cells of the collection, in ascending id order
getCells(g) == forIn({i \in Ids : has(g, i)})

\* the attribute k of attrs differs from what prev carries
changes(prev, attrs, k) == k \in DOMAIN attrs /\ (k \in DOMAIN prev => prev[k] # attrs[k])

\* cell.set(attrs): stores the attributes; a changed source fires
\* change:source, a changed target change:target, a changed z change:z and
\* a changed layer change:layer, each after all attributes are stored
modelSet(g, id, attrs) ==
    With(getCell(g, id), LAMBDA prev :
    With(assign(prev, attrs), LAMBDA cell :
    With(IF "source" \in DOMAIN attrs /\ attrs.source # prev.source
         THEN _restructureOnChangeSource(
                  trigger([g EXCEPT !.cells[id] = cell], "change:source", id),
                  cell, prev.source)
         ELSE [g EXCEPT !.cells[id] = cell], LAMBDA g1 :
    With(IF "target" \in DOMAIN attrs /\ attrs.target # prev.target
         THEN _restructureOnChangeTarget(trigger(g1, "change:target", id), cell, prev.target)
         ELSE g1, LAMBDA g2 :
    With(IF changes(prev, attrs, "z") THEN trigger(g2, "change:z", cell) ELSE g2,
         LAMBDA g3 :
        IF changes(prev, attrs, "layer") THEN trigger(g3, "change:layer", cell) ELSE g3)))))

(***************************************************************************)
(* Connected links and removal.                                            *)
(***************************************************************************)
\* an option is "true", "false" or left out
truthy(v) == v = "true"
NoOpt == [inbound |-> Undefined, outbound |-> Undefined]

\* inbound and outbound as getConnectedLinks and getNeighbors take them:
\* both on when both are left out
directions(opt) ==
    IF opt.inbound = Undefined /\ opt.outbound = Undefined
    THEN [inbound |-> TRUE, outbound |-> TRUE]
    ELSE [inbound |-> truthy(opt.inbound), outbound |-> truthy(opt.outbound)]

\* getConnectedLinks without the test of the edges table
getConnectedLinks_noSkip(g, id, opt) ==
    (IF directions(opt).outbound THEN forIn(getOutboundEdges(g, id)) ELSE <<>>)
        \o (IF directions(opt).inbound THEN forIn(getInboundEdges(g, id)) ELSE <<>>)

\* getConnectedLinks(model, opt) without indirect and deep: the outbound
\* links of model.id, then its inbound links, a link already listed skipped
getConnectedLinks(g, id, opt) ==
    (IF directions(opt).outbound THEN forIn(getOutboundEdges(g, id)) ELSE <<>>)
        \o (IF directions(opt).inbound
            THEN forIn(getInboundEdges(g, id)
                         \ (IF directions(opt).outbound THEN getOutboundEdges(g, id) ELSE {}))
            ELSE <<>>)

\* the working lists of getConnectedLinks: the links pushed and the edges
\* hash; ok is FALSE when the recursion never returns
Links(ok, links, edges) == [ok |-> ok, links |-> links, edges |-> edges]

\* links.push(link); edges[edge] = true
pushEdge(ls, edge) == Links(ls.ok, Append(ls.links, edge), ls.edges \cup {edge})

\* link.getSourceCell() / link.getTargetCell(): the cell of the end's id, if
\* any
endCell(g, end) == IF end # NoId /\ has(g, end) THEN end ELSE NoId

RECURSIVE addOutbounds(_, _, _, _, _), addInbounds(_, _, _, _, _)
RECURSIVE forInOutbound(_, _, _, _, _), forInInbound(_, _, _, _, _)

\* the indirect step on a link just pushed: if (inbound) addInbounds(graph,
\* link); if (outbound) addOutbounds(graph, link)
followLink(g, dir, ls, link, stack) ==
    With(IF dir.inbound THEN addInbounds(g, dir, ls, link, stack) ELSE ls, LAMBDA ls1 :
         IF ls1.ok /\ dir.outbound THEN addOutbounds(g, dir, ls1, link, stack) ELSE ls1)

\* util.forIn(graph.getOutboundEdges(model.id), ...) with indirect
forInOutbound(g, dir, ls, edges, stack) ==
    IF edges = <<>> \/ ~ls.ok THEN ls
    ELSE forInOutbound(g, dir,
            IF Head(edges) \in ls.edges THEN ls
            ELSE followLink(g, dir, pushEdge(ls, Head(edges)), Head(edges), stack),
            Tail(edges), stack)

\* util.forIn(graph.getInboundEdges(model.id), ...) with indirect
forInInbound(g, dir, ls, edges, stack) ==
    IF edges = <<>> \/ ~ls.ok THEN ls
    ELSE forInInbound(g, dir,
            IF Head(edges) \in ls.edges THEN ls
            ELSE followLink(g, dir, pushEdge(ls, Head(edges)), Head(edges), stack),
            Tail(edges), stack)

\* addOutbounds(graph, model) with indirect.  stack holds the calls that have
\* not returned, each with the edges hash it was entered with: a call that
\* is entered again with the same hash repeats itself without end
addOutbounds(g, dir, ls, model, stack) ==
    IF <<"out", model, ls.edges>> \in stack THEN Links(FALSE, ls.links, ls.edges)
    ELSE With(stack \cup {<<"out", model, ls.edges>>}, LAMBDA stack1 :
         With(forInOutbound(g, dir, ls, forIn(getOutboundEdges(g, model)), stack1), LAMBDA ls1 :
            IF ~ls1.ok \/ ~isLink(getCell(g, model)) THEN ls1
            ELSE With(endCell(g, getCell(g, model).target), LAMBDA outCell :
                    IF outCell # NoId /\ isLink(getCell(g, outCell)) /\ outCell \notin ls1.edges
                    THEN addOutbounds(g, dir,
                            Links(TRUE, Append(ls1.links, outCell), ls1.edges),
                            outCell, stack1)
                    ELSE ls1)))

\* addInbounds(graph, model) with indirect
addInbounds(g, dir, ls, model, stack) ==
    IF <<"in", model, ls.edges>> \in stack THEN Links(FALSE, ls.links, ls.edges)
    ELSE With(stack \cup {<<"in", model, ls.edges>>}, LAMBDA stack1 :
         With(forInInbound(g, dir, ls, forIn(getInboundEdges(g, model)), stack1), LAMBDA ls1 :
            IF ~ls1.ok \/ ~isLink(getCell(g, model)) THEN ls1
            ELSE With(endCell(g, getCell(g, model).source), LAMBDA inCell :
                    IF inCell # NoId /\ isLink(getCell(g, inCell)) /\ inCell \notin ls1.edges
                    THEN addInbounds(g, dir,
                            Links(TRUE, Append(ls1.links, inCell), ls1.edges),
                            inCell, stack1)
                    ELSE ls1)))

\* getConnectedLinks(model, { indirect: true, inbound, outbound })
getConnectedLinksIndirect(g, id, opt) ==
    With(IF directions(opt).outbound
         THEN addOutbounds(g, directions(opt), Links(TRUE, <<>>, {}), id, {})
         ELSE Links(TRUE, <<>>, {}), LAMBDA ls :
         IF ls.ok /\ directions(opt).inbound
         THEN addInbounds(g, directions(opt), ls, id, {})
         ELSE ls)

\* the id of the cell a cell is embedded in, NoId when it has no parent
parentOf(cell) == IF "parent" \in DOMAIN cell THEN cell.parent ELSE NoId

RECURSIVE embeddedIn(_, _)
\* the cells of the graph embedded in a cell of S, directly or through
\* other embedded cells
embeddedIn(g, S) ==
    With({i \in Ids : has(g, i) /\ parentOf(getCell(g, i)) \in S} \ S, LAMBDA children :
         IF children = {} THEN {} ELSE children \cup embeddedIn(g, S \cup children))

\* model.getEmbeddedCells({ deep: true })
getEmbeddedCells(g, id) == forIn(embeddedIn(g, {id}))

\* the link has its source and its target among the embedded elements
enclosed(g, embeddedElements, edge) ==
    /\ getCell(g, edge).source # NoId /\ getCell(g, edge).source \in embeddedElements
    /\ getCell(g, edge).target # NoId /\ getCell(g, edge).target \in embeddedElements

RECURSIVE forInDeep(_, _, _, _, _)
\* util.forIn over the edges of an embedded cell: an edge not yet in the
\* hash is pushed, unless it is enclosed and includeEnclosed is falsy
forInDeep(g, ls, edges, embeddedElements, includeEnclosed) ==
    IF edges = <<>> THEN ls
    ELSE forInDeep(g,
            IF Head(edges) \in ls.edges
                  \/ (~includeEnclosed /\ enclosed(g, embeddedElements, Head(edges)))
            THEN ls
            ELSE pushEdge(ls, Head(edges)),
            Tail(edges), embeddedElements, includeEnclosed)

RECURSIVE forEachEmbedded(_, _, _, _, _, _)
\* embeddedCells.forEach: the outbound, then the inbound edges of each
\* embedded cell that is not a link
forEachEmbedded(g, dir, ls, cells, embeddedElements, includeEnclosed) ==
    IF cells = <<>> THEN ls
    ELSE IF isLink(getCell(g, Head(cells)))
         THEN forEachEmbedded(g, dir, ls, Tail(cells), embeddedElements, includeEnclosed)
    ELSE With(IF dir.outbound
              THEN forInDeep(g, ls, forIn(getOutboundEdges(g, Head(cells))),
                             embeddedElements, includeEnclosed)
              ELSE ls, LAMBDA ls1 :
         With(IF dir.inbound
              THEN forInDeep(g, ls1, forIn(getInboundEdges(g, Head(cells))),
                             embeddedElements, includeEnclosed)
              ELSE ls1, LAMBDA ls2 :
            forEachEmbedded(g, dir, ls2, Tail(cells), embeddedElements, includeEnclosed)))

getConnectedLinksDeep_keepsEnclosed(g, id, opt, includeEnclosed) ==
    With(getConnectedLinks(g, id, opt), LAMBDA links :
        forEachEmbedded(g, directions(opt),
                        Links(TRUE, links, {links[k] : k \in 1 .. Len(links)}),
                        getEmbeddedCells(g, id),
                        {i \in embeddedIn(g, {id}) : isElement(getCell(g, i))},
                        TRUE).links)

\* getConnectedLinks(model, { deep: true, includeEnclosed, inbound, outbound })
getConnectedLinksDeep(g, id, opt, includeEnclosed) ==
    With(getConnectedLinks(g, id, opt), LAMBDA links :
        forEachEmbedded(g, directions(opt),
                        Links(TRUE, links, {links[k] : k \in 1 .. Len(links)}),
                        getEmbeddedCells(g, id),
                        {i \in embeddedIn(g, {id}) : isElement(getCell(g, i))},
                        includeEnclosed).links)

\* link.hasLoop(opt) without deep: source and target carry the same id
hasLoop(link) == link.source # NoId /\ link.source = link.target

\* a query returns its result, or throws
Result(res) == [ok |-> TRUE, res |-> res]
Thrown == [ok |-> FALSE, res |-> <<>>]

\* one side of the reduce step of getNeighbors: the cell of the endpoint id
\* end is looked up and isElement() is called on what was found; calling it
\* on undefined throws a TypeError
neighborOf(g, id, link, end, res) ==
    IF end = NoId \/ \E k \in 1 .. Len(res) : res[k] = end THEN Result(res)
    ELSE IF ~has(g, end) THEN Thrown
    ELSE IF isElement(getCell(g, end)) /\ (hasLoop(link) \/ end # id)
         THEN Result(Append(res, end))
         ELSE Result(res)

RECURSIVE reduceNeighbors(_, _, _, _, _)
\* getConnectedLinks(model, opt).reduce(...): the source side, then the
\* target side of each link
reduceNeighbors(g, id, dir, links, res) ==
    IF links = <<>> THEN Result(res)
    ELSE With(IF dir.inbound
              THEN neighborOf(g, id, getCell(g, Head(links)), getCell(g, Head(links)).source, res)
              ELSE Result(res), LAMBDA r1 :
         IF ~r1.ok THEN Thrown
         ELSE With(IF dir.outbound
                   THEN neighborOf(g, id, getCell(g, Head(links)),
                                   getCell(g, Head(links)).target, r1.res)
                   ELSE r1, LAMBDA r2 :
              IF ~r2.ok THEN Thrown
              ELSE reduceNeighbors(g, id, dir, Tail(links), r2.res)))

\* the source (target) cell of a link model, when it is an element that is
\* not listed yet
ownEnd(g, end, res) ==
    IF end # NoId /\ has(g, end) /\ isElement(getCell(g, end))
          /\ \A k \in 1 .. Len(res) : res[k] # end
    THEN Append(res, end)
    ELSE res

\* getNeighbors(model, opt) without deep
getNeighbors(g, id, opt) ==
    With(reduceNeighbors(g, id, directions(opt), getConnectedLinks(g, id, opt), <<>>),
         LAMBDA r :
        IF ~r.ok \/ ~isLink(getCell(g, id)) THEN r
        ELSE With(IF directions(opt).inbound
                  THEN ownEnd(g, getCell(g, id).source, r.res)
                  ELSE r.res, LAMBDA res1 :
                Result(IF directions(opt).outbound
                       THEN ownEnd(g, getCell(g, id).target, res1)
                       ELSE res1)))

\* isNeighbor(elementA, elementB, opt) without deep: some connected link of
\* elementA has, inbound asked, its source on elementB.id or, outbound
\* asked, its target
isNeighbor(g, a, b, opt) ==
    \E l \in {link \in g._edges : \E k \in 1 .. Len(getConnectedLinks(g, a, opt)) :
                                     getConnectedLinks(g, a, opt)[k] = link} :
        \/ /\ directions(opt).inbound
           /\ getCell(g, l).source # NoId /\ getCell(g, l).source = b
        \/ /\ directions(opt).outbound
           /\ getCell(g, l).target # NoId /\ getCell(g, l).target = b

\* the iteratee of a search returns false on the cells of stop
Visits(ok, list, dist) == [ok |-> ok, list |-> list, dist |-> dist]

\* distance[neighbor.id] = distance[next.id] + 1 for each neighbor
setDistances(distance, neighbors, d) ==
    [i \in Ids |-> IF \E k \in 1 .. Len(neighbors) : neighbors[k] = i THEN d ELSE distance[i]]

RECURSIVE bfsLoop(_, _, _, _, _, _, _, _)
\* while (queue.length > 0) of bfs: queue.shift(), neighbors pushed at the
\* end
bfsLoop(g, opt, stop, queue, visited, distance, list, dist) ==
    IF queue = <<>> THEN Visits(TRUE, list, dist)
    ELSE IF Head(queue) \in visited
         THEN bfsLoop(g, opt, stop, Tail(queue), visited, distance, list, dist)
    ELSE IF Head(queue) \in stop
         THEN bfsLoop(g, opt, stop, Tail(queue), visited \cup {Head(queue)}, distance,
                      Append(list, Head(queue)), Append(dist, distance[Head(queue)]))
    ELSE With(getNeighbors(g, Head(queue), opt), LAMBDA r :
            IF ~r.ok
            THEN Visits(FALSE, Append(list, Head(queue)), Append(dist, distance[Head(queue)]))
            ELSE bfsLoop(g, opt, stop, Tail(queue) \o r.res, visited \cup {Head(queue)},
                         setDistances(distance, r.res, distance[Head(queue)] + 1),
                         Append(list, Head(queue)), Append(dist, distance[Head(queue)])))

\* bfs(element, iteratee, opt)
bfs(g, id, opt, stop) ==
    bfsLoop(g, opt, stop, <<id>>, {}, [i \in Ids |-> 0], <<>>, <<>>)

Last(q) == q[Len(q)]
Front(q) == SubSeq(q, 1, Len(q) - 1)
\* queue.push(neighbor) for each neighbor in turn
spliceAll_pushes(q, neighbors) == q \o neighbors

\* queue.splice(lastIndex, 0, neighbor) for each neighbor in turn: the
\* neighbors end up behind the queue in reverse order
spliceAll(q, neighbors) == q \o [k \in 1 .. Len(neighbors) |-> neighbors[Len(neighbors) + 1 - k]]

RECURSIVE dfsLoop(_, _, _, _, _, _, _, _)
\* while (queue.length > 0) of dfs: queue.pop(), neighbors spliced in at the
\* end
dfsLoop(g, opt, stop, queue, visited, distance, list, dist) ==
    IF queue = <<>> THEN Visits(TRUE, list, dist)
    ELSE IF Last(queue) \in visited
         THEN dfsLoop(g, opt, stop, Front(queue), visited, distance, list, dist)
    ELSE IF Last(queue) \in stop
         THEN dfsLoop(g, opt, stop, Front(queue), visited \cup {Last(queue)}, distance,
                      Append(list, Last(queue)), Append(dist, distance[Last(queue)]))
    ELSE With(getNeighbors(g, Last(queue), opt), LAMBDA r :
            IF ~r.ok
            THEN Visits(FALSE, Append(list, Last(queue)), Append(dist, distance[Last(queue)]))
            ELSE dfsLoop(g, opt, stop, spliceAll(Front(queue), r.res),
                         visited \cup {Last(queue)},
                         setDistances(distance, r.res, distance[Last(queue)] + 1),
                         Append(list, Last(queue)), Append(dist, distance[Last(queue)])))

\* dfs(element, iteratee, opt)
dfs(g, id, opt, stop) ==
    dfsLoop(g, opt, stop, <<id>>, {}, [i \in Ids |-> 0], <<>>, <<>>)

\* search(element, iteratee, opt): bfs when opt.breadthFirst is truthy, dfs
\* otherwise
search(g, id, opt, stop) ==
    IF "breadthFirst" \in DOMAIN opt /\ truthy(opt.breadthFirst)
    THEN bfs(g, id, opt, stop)
    ELSE dfs(g, id, opt, stop)

\* isSuccessor(elementA, elementB): the iteratee returns false on elementB
\* when it is not elementA
isSuccessor(g, a, b) == search(g, a, [inbound |-> Undefined, outbound |-> "true"], {b} \ {a})

\* isPredecessor(elementA, elementB)
isPredecessor(g, a, b) == search(g, a, [inbound |-> "true", outbound |-> Undefined], {b} \ {a})

\* res.push(el) for every visited el other than element
others(list, id) == SelectSeq(list, LAMBDA el : el # id)

\* getSuccessors(element, opt): the search with outbound forced to true, the
\* iteratee never returning false
getSuccessors(g, id, opt) ==
    With(search(g, id, [opt EXCEPT !.outbound = "true"], {}), LAMBDA r :
         IF r.ok THEN Result(others(r.list, id)) ELSE Thrown)

\* getPredecessors(element, opt): the search with inbound forced to true
getPredecessors(g, id, opt) ==
    With(search(g, id, [opt EXCEPT !.inbound = "true"], {}), LAMBDA r :
         IF r.ok THEN Result(others(r.list, id)) ELSE Thrown)

\* the working lists of getSubgraph
Subgraph(ok, subgraph, cellMap, elements, links) ==
    [ok |-> ok, subgraph |-> subgraph, cellMap |-> cellMap, elements |-> elements,
     links |-> links]

\* a seed cell not yet in cellMap is pushed, and filed under links or
\* elements
addSeed(g, sg, id) ==
    IF id \in sg.cellMap THEN sg
    ELSE Subgraph(TRUE, Append(sg.subgraph, id), sg.cellMap \cup {id},
                  IF isLink(getCell(g, id)) THEN sg.elements ELSE Append(sg.elements, id),
                  IF isLink(getCell(g, id)) THEN Append(sg.links, id) ELSE sg.links)

RECURSIVE forEachSeed(_, _, _)
forEachSeed(g, sg, cells) ==
    IF cells = <<>> THEN sg ELSE forEachSeed(g, addSeed(g, sg, Head(cells)), Tail(cells))

\* the cell of an endpoint id that is not in cellMap is pushed and filed
\* under elements; reading the id of an undefined cell throws
pullEnd(g, sg, end) ==
    IF ~sg.ok \/ end = NoId \/ end \in sg.cellMap THEN sg
    ELSE IF ~has(g, end) THEN [sg EXCEPT !.ok = FALSE]
    ELSE Subgraph(TRUE, Append(sg.subgraph, end), sg.cellMap \cup {end},
                  Append(sg.elements, end), sg.links)

RECURSIVE forEachLinkEnds(_, _, _)
\* links.forEach: the source, then the target of each link of the seeds
forEachLinkEnds(g, sg, links) ==
    IF links = <<>> \/ ~sg.ok THEN sg
    ELSE forEachLinkEnds(g,
            pullEnd(g, pullEnd(g, sg, getCell(g, Head(links)).source),
                    getCell(g, Head(links)).target),
            Tail(links))

RECURSIVE forEachConnected(_, _, _)
\* a connected link is pushed when both its ends carry ids of cellMap
forEachConnected(g, sg, links) ==
    IF links = <<>> THEN sg
    ELSE forEachConnected(g,
            IF /\ Head(links) \notin sg.cellMap
               /\ getCell(g, Head(links)).source # NoId
               /\ getCell(g, Head(links)).source \in sg.cellMap
               /\ getCell(g, Head(links)).target # NoId
               /\ getCell(g, Head(links)).target \in sg.cellMap
            THEN [sg EXCEPT !.subgraph = Append(@, Head(links)),
                            !.cellMap = @ \cup {Head(links)}]
            ELSE sg,
            Tail(links))

RECURSIVE forEachElement(_, _, _)
\* elements.forEach: the connected links of each cell filed under elements
forEachElement(g, sg, elements) ==
    IF elements = <<>> \/ ~sg.ok THEN sg
    ELSE forEachElement(g,
            forEachConnected(g, sg, getConnectedLinks(g, Head(elements), NoOpt)),
            Tail(elements))

\* getSubgraph(cells, opt) without deep
getSubgraph(g, cells) ==
    With(forEachSeed(g, Subgraph(TRUE, <<>>, {}, <<>>, <<>>), cells), LAMBDA seeded :
    With(forEachLinkEnds(g, seeded, seeded.links), LAMBDA pulled :
         forEachElement(g, pulled, pulled.elements)))

getSources_byOut(g) == forIn({node \in g._nodes : getOutboundEdges(g, node) = {}})

\* getSources(): the nodes whose _in bucket is missing or empty
getSources(g) == forIn({node \in g._nodes : getInboundEdges(g, node) = {}})

\* getSinks(): the nodes whose _out bucket is missing or empty
getSinks(g) == forIn({node \in g._nodes : getOutboundEdges(g, node) = {}})

\* isSource(element)
isSource(g, id) == getInboundEdges(g, id) = {}

\* isSink(element)
isSink(g, id) == getOutboundEdges(g, id) = {}

\* the removal options the model distinguishes
Opt(clear, disconnect) == [clear |-> clear, disconnectLinks |-> disconnect]

RECURSIVE forEachDisconnect(_, _, _)
forEachDisconnect(g, links, id) ==
    IF links = <<>> THEN g
    ELSE With(IF getCell(g, Head(links)).source = id
              THEN modelSet(g, Head(links), [source |-> NoId])
              ELSE modelSet(g, Head(links), [target |-> NoId]), LAMBDA g1 :
            forEachDisconnect(g1, Tail(links), id))

\* disconnectLinks(model, opt)
disconnectLinks(g, id) ==
    forEachDisconnect(trigger(g, "disconnectLinks", id), getConnectedLinks(g, id, NoOpt), id)

RECURSIVE cellRemove(_, _, _), invokeRemove(_, _, _)

\* removeLinks that removes the outbound links only
removeLinks_outboundOnly(g, id, opt) ==
    invokeRemove(trigger(g, "removeLinks", id), forIn(getOutboundEdges(g, id)), opt)

\* removeLinks(model, opt)
removeLinks(g, id, opt) ==
    invokeRemove(trigger(g, "removeLinks", id), getConnectedLinks(g, id, NoOpt), opt)

\* the graph's second handler of 'remove'
_removeCell(g, id, options) ==
    IF options.clear THEN collectionRemoveSilent(g, id)
    ELSE With(IF options.disconnectLinks
              THEN disconnectLinks(g, id)
              ELSE removeLinks(g, id, options), LAMBDA g1 :
            collectionRemoveSilent(g1, id))

\* cell.remove(opt): a cell that is in no graph triggers nothing; otherwise
\* 'remove' runs _restructureOnRemove, then _removeCell
cellRemove(g, id, opt) ==
    IF ~has(g, id) THEN g
    ELSE With(_restructureOnRemove(trigger(g, "remove", id), getCell(g, id)), LAMBDA g1 :
            _removeCell(g1, id, opt))

\* util.invoke(cells, 'remove', opt)
invokeRemove(g, ids, opt) ==
    IF ids = <<>> THEN g
    ELSE With(cellRemove(g, Head(ids), opt), LAMBDA g1 :
            invokeRemove(g1, Tail(ids), opt))

(***************************************************************************)
(* Cell lifecycle operations.  An operation that can throw returns the     *)
(* graph state it leaves behind together with ok = FALSE when it threw.    *)
(***************************************************************************)
Return(g) == [g |-> g, ok |-> TRUE]
Throw(g) == [g |-> g, ok |-> FALSE]

\* r when the call that gave it threw, else what F makes of the graph state
\* the call returned
Then(r, F(_)) == IF r.ok THEN F(r.g) ELSE r

\* _prepareCell: TRUE when it returns the cell, FALSE when it throws the
\* TypeError 'dia.Graph: cell type must be a string.'
_prepareCell(cell) == isString(typeOf(cell))

\* addCell that validates the type after the insertion
addCell_insertsFirst(g, cell) ==
    IF ~_prepareCell(cell) THEN Throw(collectionAdd(g, cell))
    ELSE Return(collectionAdd(g, cell))

\* addCell(cell, opt) for a single cell
addCell(g, cell) ==
    IF ~_prepareCell(cell) THEN Throw(g)
    ELSE Return(collectionAdd(g, cell))

RECURSIVE forEachAddCell(_, _)
forEachAddCell(g, cells) ==
    IF cells = <<>> THEN Return(g)
    ELSE With(addCell(g, Head(cells)), LAMBDA r :
            Then(r, LAMBDA g1 : forEachAddCell(g1, Tail(cells))))

addCells(g, cells) ==
    IF Len(cells) = 0 THEN Return(g)
    ELSE With(forEachAddCell(startBatch(g, "add"), cells), LAMBDA r :
            Then(r, LAMBDA g1 : Return(stopBatch(g1, "add"))))

resetCells(g, cells) ==
    IF \E k \in 1 .. Len(cells) : ~_prepareCell(cells[k])
    THEN Throw(startBatch(g, "reset"))
    ELSE Return(stopBatch(collectionReset(startBatch(g, "reset"), cells), "reset"))

\* removeCells that opens its batch on empty input as well
removeCells_alwaysBatches(g, ids, opt) ==
    stopBatch(invokeRemove(startBatch(g, "remove"), ids, opt), "remove")

removeCells(g, ids, opt) ==
    IF Len(ids) = 0 THEN g
    ELSE stopBatch(invokeRemove(startBatch(g, "remove"), ids, opt), "remove")

\* the sort of clear with the two ranks exchanged: the elements come first
linksFirst_elementsFirst(g) ==
    forIn({i \in Ids : has(g, i) /\ ~isLink(getCell(g, i))})
        \o forIn({i \in Ids : has(g, i) /\ isLink(getCell(g, i))})

\* collection.sortBy(cell => cell.isLink() ? 1 : 2): the links, then the rest
linksFirst(g) ==
    forIn({i \in Ids : has(g, i) /\ isLink(getCell(g, i))})
        \o forIn({i \in Ids : has(g, i) /\ ~isLink(getCell(g, i))})

clear(g) ==
    IF \A i \in Ids : ~has(g, i) THEN g
    ELSE stopBatch(invokeRemove(startBatch(g, "clear"), linksFirst(g), Opt(TRUE, FALSE)),
                   "clear")

\* _replaceCell that adds the replacement as given, without the merge
_replaceCell_noMerge(g, id, newCellInit) ==
    With(getCell(g, id), LAMBDA currentCell :
    With(_removeCell(_restructureOnRemove(
                         trigger(startBatch(g, "replace-cell"), "remove", id), currentCell),
                     id, Opt(TRUE, FALSE)), LAMBDA g1 :
    With(addCell(g1, newCellInit), LAMBDA r :
        Then(r, LAMBDA g2 : Return(stopBatch(g2, "replace-cell"))))))

\* _replaceCell that triggers the removal without the clear flag
_replaceCell_cascades(g, id, newCellInit) ==
    With(getCell(g, id), LAMBDA currentCell :
    With(_removeCell(_restructureOnRemove(
                         trigger(startBatch(g, "replace-cell"), "remove", id), currentCell),
                     id, Opt(FALSE, FALSE)), LAMBDA g1 :
    With(addCell(g1, assign(currentCell, newCellInit)), LAMBDA r :
        Then(r, LAMBDA g2 : Return(stopBatch(g2, "replace-cell"))))))

_replaceCell(g, id, newCellInit) ==
    With(getCell(g, id), LAMBDA currentCell :
    \* currentCell.trigger('remove', ..., { clear: true, replace: true })
    With(_removeCell(_restructureOnRemove(
                         trigger(startBatch(g, "replace-cell"), "remove", id), currentCell),
                     id, Opt(TRUE, FALSE)), LAMBDA g1 :
    With(addCell(g1, assign(currentCell, newCellInit)), LAMBDA r :
        Then(r, LAMBDA g2 : Return(stopBatch(g2, "replace-cell"))))))

\* _syncCell that replaces every cell it finds
_syncCell_alwaysReplaces(g, cellInit) ==
    IF has(g, cellInit.id)
    THEN _replaceCell(g, cellInit.id, cellInit)
    ELSE addCell(g, cellInit)

_syncCell(g, cellInit) ==
    IF has(g, cellInit.id)
    THEN IF "type" \in DOMAIN cellInit /\ getCell(g, cellInit.id).type # cellInit.type
         THEN _replaceCell(g, cellInit.id, cellInit)
         ELSE Return(modelSet(g, cellInit.id, cellInit))
    ELSE addCell(g, cellInit)

RECURSIVE forEachSyncCell(_, _)
forEachSyncCell(g, cellInits) ==
    IF cellInits = <<>> THEN Return(g)
    ELSE With(_syncCell(g, Head(cellInits)), LAMBDA r :
            Then(r, LAMBDA g1 : forEachSyncCell(g1, Tail(cellInits))))

\* the cells of currentCells whose id is not in newCellsMap
missingFrom(ids, keep) == SelectSeq(ids, LAMBDA i : i \notin keep)

\* cell.layer(): the layer attribute, or the default layer
DefaultLayer == "cells"
layer(cell) == IF "layer" \in DOMAIN cell THEN cell.layer ELSE DefaultLayer

\* layer.maxZIndex() of the layer controller: the highest z a cell of the
\* layer carries, 0 for a layer without such a cell
maxZIndex(g, layerId) ==
    With({getCell(g, i).z : i \in {j \in Ids : /\ has(g, j)
                                               /\ layer(getCell(g, j)) = layerId
                                               /\ "z" \in DOMAIN getCell(g, j)}},
         LAMBDA zs : IF zs = {} THEN 0 ELSE CHOOSE z \in zs : \A y \in zs : y <= z)

\* the z step of _prepareCell that sets z whether or not the cell has one
ensureZIndex_overwrites(g, cell) ==
    assign(cell, [z |-> maxZIndex(g, layer(cell)) + 1])

\* the z step of _prepareCell under ensureZIndex: a cell without z gets one
\* above the highest z of its layer
ensureZIndex(g, cell) ==
    IF "z" \in DOMAIN cell THEN cell
    ELSE assign(cell, [z |-> maxZIndex(g, layer(cell)) + 1])

\* addCell(cell, opt) for a single cell, the z attribute included:
\* cellCollection.add(_prepareCell(cell, { ...opt, ensureZIndex: true }))
addPrepared(g, cell) ==
    IF ~_prepareCell(cell) THEN Throw(g)
    ELSE Return(collectionAdd(g, ensureZIndex(g, cell)))

\* the change observer of syncCells with the 'change' handler left out
observes_addOnly(e) == e[1] = "add"

\* the events the change observer of syncCells adds a layer for: 'add', and
\* 'change' of a cell whose layer attribute or z has changed
observes(e) == e[1] \in {"add", "change:z", "change:layer"}

RECURSIVE changedLayers(_, _, _)
\* the Set changedLayers, in insertion order, after the events from the
\* k-th on, given the layers inserted before
changedLayers(events, k, layers) ==
    IF k > Len(events) THEN layers
    ELSE IF observes(events[k]) /\ \A j \in 1 .. Len(layers) : layers[j] # layer(events[k][2])
         THEN changedLayers(events, k + 1, Append(layers, layer(events[k][2])))
         ELSE changedLayers(events, k + 1, layers)

RECURSIVE sortLayers(_, _)
\* getCellLayer(layerId).cells.sort(opt) for each layer of changedLayers
sortLayers(g, layers) ==
    IF layers = <<>> THEN g
    ELSE sortLayers(trigger(g, "sort", Head(layers)), Tail(layers))

\* syncCells that sorts the layers after the batch is stopped
syncCells_sortsAfterStop(g, cellInits, remove, sort) ==
    With(forEachSyncCell(startBatch(g, "sync-cells"), cellInits), LAMBDA r :
        Then(r, LAMBDA g1 :
            With(IF remove
                 THEN invokeRemove(g1,
                         missingFrom(getCells(g),
                                     {cellInits[k].id : k \in 1 .. Len(cellInits)}),
                         Opt(FALSE, FALSE))
                 ELSE g1, LAMBDA g2 :
                With(stopBatch(g2, "sync-cells"), LAMBDA g3 :
                    Return(IF sort
                           THEN sortLayers(g3, changedLayers(g2.events, Len(g.events) + 1, <<>>))
                           ELSE g3)))))

\* syncCells(cellInits, { remove, sort })
syncCells(g, cellInits, remove, sort) ==
    With(forEachSyncCell(startBatch(g, "sync-cells"), cellInits), LAMBDA r :
        Then(r, LAMBDA g1 :
            With(IF remove
                 THEN invokeRemove(g1,
                         missingFrom(getCells(g),
                                     {cellInits[k].id : k \in 1 .. Len(cellInits)}),
                         Opt(FALSE, FALSE))
                 ELSE g1, LAMBDA g2 :
                Return(stopBatch(
                    IF sort
                    THEN sortLayers(g2, changedLayers(g2.events, Len(g.events) + 1, <<>>))
                    ELSE g2,
                    "sync-cells")))))

(***************************************************************************)
(* The state machine.  op records the last call made on the graph: its     *)
(* name, whether it returned (ok) or threw, the link a set:source or       *)
(* set:target was made on, the list a resetCells was given and the batch   *)
(* names a batch call was given.  calls counts, per batch name, the        *)
(* startBatch and stopBatch calls the environment has made.                *)
(***************************************************************************)
\* the batch names the environment uses itself
\* resetCellLayers(cellLayers, opt): the layer collection is reset, which the
\* graph retriggers as 'layers:reset'
resetCellLayers(g, cellLayers) == trigger(g, "layers:reset", NoId)

\* this.set(attrs, opt): a 'change' when attrs holds an attribute
graphSet(g, attrs) == IF attrs = {} THEN g ELSE trigger(g, "change", NoId)

\* the JSON document carries the key
member(json, key) == key \in DOMAIN json

fromJSON_layersFirst(g, json) ==
    With(IF member(json, "cellLayers") THEN resetCellLayers(g, json.cellLayers) ELSE g,
         LAMBDA g1 :
            IF ~member(json, "cells") THEN Throw(g1)
            ELSE Then(resetCells(g1, json.cells), LAMBDA g2 : Return(graphSet(g2, json.attrs))))

\* fromJSON(json, opt)
fromJSON(g, json) ==
    IF ~member(json, "cells") THEN Throw(g)
    ELSE Then(resetCells(IF member(json, "cellLayers")
                         THEN resetCellLayers(g, json.cellLayers)
                         ELSE g,
                         json.cells),
              LAMBDA g2 : Return(graphSet(g2, json.attrs)))

BatchNames == {"add", "pointer"}

Call(name, id, list, ok) ==
    [name |-> name, id |-> id, list |-> list, names |-> {}, ok |-> ok]

Query(name, names, res) ==
    [name |-> name, id |-> NoId, list |-> <<>>, names |-> names, ok |-> res]

Becomes(g, o) ==
    /\ cellCollection' = g.cells
    /\ _out' = g._out
    /\ _in' = g._in
    /\ _nodes' = g._nodes
    /\ _edges' = g._edges
    /\ _batches' = g._batches
    /\ op' = o
    /\ calls' = calls

Init ==
    /\ cellCollection = NewGraph.cells
    /\ _out = NewGraph._out
    /\ _in = NewGraph._in
    /\ _nodes = NewGraph._nodes
    /\ _edges = NewGraph._edges
    /\ _batches = NewGraph._batches
    /\ op = Call("initialize", NoId, <<>>, TRUE)
    /\ calls = [n \in BatchNames |-> [start |-> 0, stop |-> 0]]


\* graph.addCell(c)
AddCell(c) ==
    \E r \in {addCell(this, c)} : Becomes(r.g, Call("addCell", NoId, <<>>, r.ok))

\* cell.remove() on a cell of the graph
RemoveCell(id) ==
    /\ has(this, id)
    /\ \E g \in {cellRemove(this, id, Opt(FALSE, FALSE))} :
          Becomes(g, Call("remove", NoId, <<>>, TRUE))

\* cell.remove({ disconnectLinks: true }) on a cell of the graph
RemoveCellDisconnect(id) ==
    /\ has(this, id)
    /\ \E g \in {cellRemove(this, id, Opt(FALSE, TRUE))} :
          Becomes(g, Call("remove:disconnectLinks", NoId, <<>>, TRUE))

\* graph.clear()
Clear == \E g \in {clear(this)} : Becomes(g, Call("clear", NoId, <<>>, TRUE))

\* graph.resetCells(cells)
ResetCells(cells) ==
    /\ batchCount(this, "reset") < MaxOpen
    /\ \E r \in {resetCells(this, cells)} :
          Becomes(r.g, Call("resetCells", NoId, cells, r.ok))

\* link.source(q) / link.set('source', q) on a link of the graph
SetSource(id, q) ==
    /\ has(this, id) /\ isLink(getCell(this, id))
    /\ \E g \in {modelSet(this, id, [source |-> q])} :
          Becomes(g, Call("set:source", id, <<>>, TRUE))

\* link.target(q) / link.set('target', q) on a link of the graph
SetTarget(id, q) ==
    /\ has(this, id) /\ isLink(getCell(this, id))
    /\ \E g \in {modelSet(this, id, [target |-> q])} :
          Becomes(g, Call("set:target", id, <<>>, TRUE))

\* the inits the reset lists are made of: every element, and every link from
\* an element to a point or to the link itself
ResetInits ==
    {c \in ValidInits : isLink(c) => c.source \in ElemIds /\ c.target \in {c.id, NoId}}
ResetLists == SeqsUpTo(ResetInits, MaxLen)

\* graph.startBatch(name)
StartBatch(name) ==
    /\ calls[name].start < MaxDepth
    /\ cellCollection' = cellCollection /\ _out' = _out /\ _in' = _in
    /\ _nodes' = _nodes /\ _edges' = _edges
    /\ _batches' = startBatch(this, name)._batches
    /\ op' = Query("startBatch", {name}, TRUE)
    /\ calls' = [calls EXCEPT ![name].start = @ + 1]

\* graph.stopBatch(name)
StopBatch(name) ==
    /\ calls[name].stop < MaxDepth
    /\ cellCollection' = cellCollection /\ _out' = _out /\ _in' = _in
    /\ _nodes' = _nodes /\ _edges' = _edges
    /\ _batches' = stopBatch(this, name)._batches
    /\ op' = Query("stopBatch", {name}, TRUE)
    /\ calls' = [calls EXCEPT ![name].stop = @ + 1]

\* graph.hasActiveBatch(name) for a single name, graph.hasActiveBatch(names)
\* for an array
HasActiveBatch(names) ==
    \E res \in {hasActiveBatch(this, names)} :
        Becomes(this, Query("hasActiveBatch", names, res))

\* graph.hasActiveBatch()
HasActiveBatchNoArg ==
    \E res \in {hasActiveBatchAny(this)} :
        Becomes(this, Query("hasActiveBatch()", {}, res))

\* graph.addCells(cells)
AddCells(cells) ==
    /\ batchCount(this, "add") < MaxOpen
    /\ \E r \in {addCells(this, cells)} :
          Becomes(r.g, Call("addCells", NoId, <<>>, r.ok))

\* graph.syncCells(cellInits, { remove })
SyncCells(cellInits, remove) ==
    /\ batchCount(this, "sync-cells") < MaxOpen
    /\ \E r \in {syncCells(this, cellInits, remove, TRUE)} :
          Becomes(r.g, Call("syncCells", NoId, <<>>, r.ok))

\* graph.removeCells(cells) with cells of the graph
RemoveCells(ids) ==
    /\ \A k \in 1 .. Len(ids) : has(this, ids[k])
    /\ \E g \in {removeCells(this, ids, Opt(FALSE, FALSE))} :
          Becomes(g, Call("removeCells", NoId, <<>>, TRUE))

Next ==
    \/ \E c \in CellInits : AddCell(c)
    \/ \E id \in Ids : RemoveCell(id)
    \/ \E id \in Ids : RemoveCellDisconnect(id)
    \/ Clear
    \/ \E cells \in ResetLists : ResetCells(cells)
    \/ \E id \in LinkIds, q \in Endpoints : SetSource(id, q)
    \/ \E id \in LinkIds, q \in Endpoints : SetTarget(id, q)

Spec == Init /\ [][Next]_vars

(***************************************************************************)
(* The batch tracker with single-cell mutations between the batch calls.   *)
(***************************************************************************)
\* an element, and the links from it to itself
LoopInits == {c \in ValidInits : isLink(c) => c.source \in ElemIds /\ c.target = c.source}

NextBatch ==
    \/ \E name \in BatchNames : StartBatch(name)
    \/ \E name \in BatchNames : StopBatch(name)
    \/ \E names \in SUBSET BatchNames : HasActiveBatch(names)
    \/ HasActiveBatchNoArg
    \/ \E c \in LoopInits : AddCell(c)
    \/ \E id \in Ids : RemoveCell(id)

SpecBatch == Init /\ [][NextBatch]_vars

(***************************************************************************)
(* The bulk operations, given lists that may hold a cell without a string  *)
(* type.                                                                   *)
(***************************************************************************)
BulkInits == LoopInits \cup InvalidInits
BulkLists == SeqsUpTo(BulkInits, MaxLen)

NextBulk ==
    \/ \E c \in BulkInits : AddCell(c)
    \/ \E cells \in BulkLists : AddCells(cells)
    \/ \E cells \in BulkLists : ResetCells(cells)
    \/ \E cells \in BulkLists, remove \in BOOLEAN : SyncCells(cells, remove)
    \/ \E ids \in SeqsUpTo(Ids, MaxLen) : RemoveCells(ids)

SpecBulk == Init /\ [][NextBulk]_vars

(***************************************************************************)
(* Properties of the adjacency index.                                      *)
(***************************************************************************)
cellsInGraph == {i \in Ids : has(this, i)}
linksInGraph == {i \in cellsInGraph : isLink(cellCollection[i])}
elementsInGraph == {i \in cellsInGraph : ~isLink(cellCollection[i])}

\* C1 - index completeness: after every operation, every link of the graph
\* is in _edges, in _out[s] when its source carries the id s and in _in[t]
\* when its target carries the id t, and every element of the graph is in
\* _nodes.
IndexComplete ==
    /\ \A l \in linksInGraph :
          /\ l \in _edges
          /\ cellCollection[l].source # NoId => l \in _out[cellCollection[l].source]
          /\ cellCollection[l].target # NoId => l \in _in[cellCollection[l].target]
    /\ \A e \in elementsInGraph : e \in _nodes

\* a link with both endpoints on ids is indexed after one of its endpoints
\* was changed
IndexCompleteWitness ==
    /\ op.name \in {"set:source", "set:target"}
    /\ \E l \in linksInGraph :
          /\ cellCollection[l].source # NoId /\ cellCollection[l].target # NoId
          /\ l \in _out[cellCollection[l].source] \cap _in[cellCollection[l].target]
    /\ elementsInGraph # {}

\* C2 - no residue: after every operation, every id in _out[n] is a link of
\* the graph whose source id is n, every id in _in[n] is a link of the graph
\* whose target id is n, every id in _nodes is an element of the graph and
\* every id in _edges is a link of the graph.
NoResidue ==
    /\ \A n \in Ids : \A l \in _out[n] : l \in linksInGraph /\ cellCollection[l].source = n
    /\ \A n \in Ids : \A l \in _in[n] : l \in linksInGraph /\ cellCollection[l].target = n
    /\ _nodes \subseteq elementsInGraph
    /\ _edges \subseteq linksInGraph

\* a removal took a cell out and left a connected link behind
NoResidueWitness ==
    /\ op.name \in {"remove", "remove:disconnectLinks"}
    /\ cellsInGraph # Ids
    /\ \E n \in Ids : _out[n] \cup _in[n] # {}

ResetRebuild ==
    op.name = "resetCells" /\ op.ok =>
        LET fresh == forEachAddCell(NewGraph, op.list).g
        IN  /\ _nodes = fresh._nodes /\ _edges = fresh._edges
            /\ \A n \in Ids : /\ getOutboundEdges(this, n) = getOutboundEdges(fresh, n)
                              /\ getInboundEdges(this, n) = getInboundEdges(fresh, n)
            /\ cellCollection = fresh.cells

\* a reset to a list with a link and an element
ResetRebuildWitness ==
    /\ op.name = "resetCells" /\ op.ok /\ Len(op.list) = MaxLen
    /\ linksInGraph # {} /\ elementsInGraph # {}
    /\ \E n \in Ids : _out[n] # {}

\* C5 - frame of an endpoint change: when the source of a link of the graph
\* changes from p to q, the link leaves _out[p] if p carried an id and enters
\* _out[q] if q carries an id; _nodes, _edges, _in and the buckets of all
\* other ids stay as they were, and nothing is removed when p was a point.
\* Likewise for the target and _in.
SourceChangeFrame ==
    op'.name = "set:source" =>
        LET l == op'.id
            p == cellCollection[l].source
            q == cellCollection'[l].source
        IN  /\ _nodes' = _nodes /\ _edges' = _edges /\ _in' = _in
            /\ \A n \in Ids \ {p, q} : _out'[n] = _out[n]
            /\ p # q /\ p # NoId => _out'[p] = _out[p] \ {l}
            /\ p # q /\ q # NoId => _out'[q] = _out[q] \cup {l}
            /\ p = NoId => \A n \in Ids : _out[n] \subseteq _out'[n]
            /\ p = q => _out' = _out

TargetChangeFrame ==
    op'.name = "set:target" =>
        LET l == op'.id
            p == cellCollection[l].target
            q == cellCollection'[l].target
        IN  /\ _nodes' = _nodes /\ _edges' = _edges /\ _out' = _out
            /\ \A n \in Ids \ {p, q} : _in'[n] = _in[n]
            /\ p # q /\ p # NoId => _in'[p] = _in[p] \ {l}
            /\ p # q /\ q # NoId => _in'[q] = _in[q] \cup {l}
            /\ p = NoId => \A n \in Ids : _in[n] \subseteq _in'[n]
            /\ p = q => _in' = _in

EndpointChangeFrame == [][SourceChangeFrame /\ TargetChangeFrame]_vars

\* the source of a link was set and carries an id
EndpointChangeWitness ==
    /\ op.name = "set:source"
    /\ op.id \in linksInGraph
    /\ cellCollection[op.id].source # NoId
    /\ _out[cellCollection[op.id].source] = {op.id}
    /\ \E n \in Ids \ {cellCollection[op.id].source} : _out[n] # {}

(***************************************************************************)
(* Properties of the batch tracker.                                        *)
(***************************************************************************)
\* starts minus stops of a batch name, counted over the calls made
netStarts(name) == calls[name].start - calls[name].stop

\* C6 - batch reentrancy: after any sequence of startBatch/stopBatch calls
\* the counter of every name is its number of starts minus its number of
\* stops, and hasActiveBatch(name) holds exactly while the starts exceed the
\* stops (two starts need two stops; a stop without start takes the counter
\* below zero, and one start then does not make the name active).
BatchReentrancy ==
    \A name \in BatchNames :
        /\ batchCount(this, name) = netStarts(name)
        /\ hasActiveBatch(this, {name}) <=> calls[name].start > calls[name].stop

\* one name started twice and stopped once, another stopped twice and
\* started once
BatchReentrancyWitness ==
    \E n, m \in BatchNames :
        /\ calls[n] = [start |-> 2, stop |-> 1] /\ hasActiveBatch(this, {n})
        /\ calls[m] = [start |-> 1, stop |-> 2] /\ ~hasActiveBatch(this, {m})

\* C7 - hasActiveBatch() is true exactly when some counter is above zero,
\* hasActiveBatch(name) exactly when the counter of name is above zero and
\* hasActiveBatch([n1..nk]) exactly when one of the listed counters is above
\* zero; a name never started and a counter below zero are not active.
HasActiveBatchAnswer ==
    /\ op.name = "hasActiveBatch()" => (op.ok <=> \E n \in BatchNames : netStarts(n) > 0)
    /\ op.name = "hasActiveBatch" => (op.ok <=> \E n \in op.names : netStarts(n) > 0)

\* a query of all names answered true with one of them below zero
HasActiveBatchWitness ==
    /\ op.name = "hasActiveBatch" /\ op.names = BatchNames /\ op.ok
    /\ \E n \in BatchNames : netStarts(n) < 0

\* C8 - startBatch(name) and stopBatch(name) change the counter of name and
\* nothing else (not the counter of another name, not the collection, not
\* the index), and a cell added or removed while a batch is active is in or
\* out of the collection and the index at once.
BatchCallFrame ==
    op'.name \in {"startBatch", "stopBatch"} /\ calls' # calls =>
        /\ cellCollection' = cellCollection
        /\ _out' = _out /\ _in' = _in /\ _nodes' = _nodes /\ _edges' = _edges
        /\ \A m \in (DOMAIN _batches \cup DOMAIN _batches') \ op'.names :
              /\ m \in DOMAIN _batches /\ m \in DOMAIN _batches'
              /\ _batches'[m] = _batches[m]

MutationNotDeferred ==
    hasActiveBatchAny(this) =>
        /\ \A c \in LoopInits :
              ~has(this, c.id) /\ AddCell(c) =>
                  /\ cellCollection'[c.id] = modelOf(c)
                  /\ c.id \in _nodes' \cup _edges'
                  /\ _batches' = _batches
        /\ \A id \in Ids :
              RemoveCell(id) => cellCollection'[id] = NoCell /\ id \notin _nodes' \cup _edges'

BatchFrame == [][BatchCallFrame /\ MutationNotDeferred]_vars

\* a cell was added while two batches were active
BatchFrameWitness ==
    /\ op.name = "addCell" /\ op.ok
    /\ \A n \in BatchNames : hasActiveBatch(this, {n})
    /\ cellsInGraph # {}

(***************************************************************************)
(* Properties of the bulk operations on a cell without a string type.      *)
(***************************************************************************)
batchOf(name) ==
    CASE name = "addCells" -> "add"
      [] name = "resetCells" -> "reset"
      [] OTHER -> "sync-cells"

\* C9 as stated - when a cell fails the type validation in the middle of
\* addCells, resetCells or syncCells, the batch stop of that operation is
\* still made: the counter of its batch is what it was before the call and
\* hasActiveBatch of that name is not left true.
BulkFailureStopsBatch ==
    [][op'.name \in {"addCells", "resetCells", "syncCells"} /\ ~op'.ok =>
          /\ batchCount(this', batchOf(op'.name)) = batchCount(this, batchOf(op'.name))
          /\ ~hasActiveBatch(this', {batchOf(op'.name)})]_vars

\* C10 - addCell with a cell whose type is no string throws and leaves the
\* collection and the four index structures as they were; resetCells with
\* such a cell in its list throws and leaves them as they were too.
InvalidTypeRejected ==
    [][/\ \A c \in InvalidInits :
             AddCell(c) =>
                 /\ ~op'.ok
                 /\ cellCollection' = cellCollection
                 /\ _out' = _out /\ _in' = _in /\ _nodes' = _nodes /\ _edges' = _edges
       /\ op'.name = "resetCells"
            /\ (\E k \in 1 .. Len(op'.list) : ~isString(typeOf(op'.list[k]))) =>
                 /\ ~op'.ok
                 /\ cellCollection' = cellCollection
                 /\ _out' = _out /\ _in' = _in /\ _nodes' = _nodes /\ _edges' = _edges]_vars

\* a resetCells whose second cell has no string type threw and the graph
\* still holds cells
InvalidTypeWitness ==
    /\ op.name = "resetCells" /\ ~op.ok
    /\ Len(op.list) = MaxLen /\ isString(typeOf(op.list[1]))
    /\ cellsInGraph # {} /\ _nodes # {} /\ _edges # {}

(***************************************************************************)
(* Removal.  The operations below record in op the graph state they began  *)
(* in (before) and the events they triggered.                              *)
(***************************************************************************)
Did(name, id, before, g) ==
    [name |-> name, id |-> id, list |-> <<>>, names |-> {}, ok |-> TRUE,
     before |-> before, events |-> g.events]

\* cell.remove() on a cell of the graph
CellRemove(id) ==
    /\ has(this, id)
    /\ \E g \in {cellRemove(this, id, Opt(FALSE, FALSE))} :
          Becomes(g, Did("cell.remove", id, this, g))

\* cell.remove({ disconnectLinks: true }) on a cell of the graph
CellRemoveDisconnect(id) ==
    /\ has(this, id)
    /\ \E g \in {cellRemove(this, id, Opt(FALSE, TRUE))} :
          Becomes(g, Did("cell.remove:disconnectLinks", id, this, g))

\* graph.clear()
ClearGraph == \E g \in {clear(this)} : Becomes(g, Did("graph.clear", NoId, this, g))

NextRemoval ==
    \/ \E c \in ValidInits : AddCell(c)
    \/ \E id \in Ids : CellRemove(id)
    \/ \E id \in Ids : CellRemoveDisconnect(id)
    \/ ClearGraph

SpecRemoval == Init /\ [][NextRemoval]_vars

\* the cells and the links of a graph state
cellsOf(g) == {i \in Ids : has(g, i)}
linksOf(g) == {i \in cellsOf(g) : isLink(g.cells[i])}
\* the links of g with an endpoint that carries id
linksAt(g, id) == {l \in linksOf(g) : g.cells[l].source = id \/ g.cells[l].target = id}
\* the positions of the events named name, and those with that argument
eventsNamed(events, name) == {k \in 1 .. Len(events) : events[k][1] = name}
eventsOf(events, name, arg) == {k \in eventsNamed(events, name) : events[k][2] = arg}

\* C11 - cascading removal: after cell.remove() without options the cell is
\* out of the collection, every link that had the cell as source or target
\* is removed too, transitively, and no link left in the graph has a source
\* or target id of a removed cell.
CascadeRemoval ==
    op.name = "cell.remove" =>
        LET removed == cellsOf(op.before) \ cellsInGraph
        IN  /\ op.id \in removed
            /\ cellsInGraph \subseteq cellsOf(op.before)
            /\ linksAt(op.before, op.id) \subseteq removed
            /\ \A l \in linksInGraph :
                  /\ cellCollection[l].source \notin removed
                  /\ cellCollection[l].target \notin removed
                  /\ cellCollection[l] = op.before.cells[l]

\* an element was removed that had a link, and that link a link of its own
CascadeRemovalWitness ==
    /\ op.name = "cell.remove" /\ op.id \in ElemIds
    /\ \E l1, l2 \in linksOf(op.before) :
          /\ l1 # l2
          /\ op.before.cells[l1].target = op.id
          /\ op.before.cells[l2].source = l1
          /\ ~has(this, l1) /\ ~has(this, l2)

\* C12 as stated - removal with disconnectLinks: every other link that was
\* connected to the removed cell c stays in the graph, each of its endpoints
\* that pointed at c is now a point and its other endpoint is as before;
\* no link of the graph has source or target c, and out[c] and in[c] are
\* empty.
DisconnectRemoval ==
    op.name = "cell.remove:disconnectLinks" =>
        /\ ~has(this, op.id)
        /\ \A l \in linksAt(op.before, op.id) \ {op.id} :
              /\ has(this, l)
              /\ cellCollection[l].source =
                    IF op.before.cells[l].source = op.id THEN NoId
                    ELSE op.before.cells[l].source
              /\ cellCollection[l].target =
                    IF op.before.cells[l].target = op.id THEN NoId
                    ELSE op.before.cells[l].target
        /\ linksAt(this, op.id) = {}
        /\ _out[op.id] = {} /\ _in[op.id] = {}

\* C13 - clear() on a graph with cells triggers one batch:start and one
\* batch:stop of 'clear', first and last, removes every cell once in
\* between, every link before every element, calls neither removeLinks nor
\* disconnectLinks, and leaves collection, node set, edge set and every
\* bucket empty; on an empty graph it triggers nothing and changes nothing.
ClearEmpties ==
    op.name = "graph.clear" =>
        IF cellsOf(op.before) = {}
        THEN op.events = <<>> /\ this = op.before
        ELSE /\ Head(op.events) = <<"batch:start", "clear">>
             /\ op.events[Len(op.events)] = <<"batch:stop", "clear">>
             /\ Cardinality(eventsNamed(op.events, "batch:start")) = 1
             /\ Cardinality(eventsNamed(op.events, "batch:stop")) = 1
             /\ eventsNamed(op.events, "removeLinks") = {}
             /\ eventsNamed(op.events, "disconnectLinks") = {}
             /\ eventsNamed(op.events, "change:source") = {}
             /\ eventsNamed(op.events, "change:target") = {}
             /\ \A i \in Ids :
                   Cardinality(eventsOf(op.events, "remove", i))
                       = IF has(op.before, i) THEN 1 ELSE 0
             /\ \A l \in linksOf(op.before), e \in cellsOf(op.before) \ linksOf(op.before) :
                   \A kl \in eventsOf(op.events, "remove", l),
                      ke \in eventsOf(op.events, "remove", e) : kl < ke
             /\ cellsInGraph = {} /\ _nodes = {} /\ _edges = {}
             /\ \A n \in Ids : _out[n] = {} /\ _in[n] = {}
             /\ \A b \in DOMAIN op.before._batches : _batches[b] = op.before._batches[b]

\* a graph of an element and two links connected to it was cleared
ClearEmptiesWitness ==
    /\ op.name = "graph.clear"
    /\ cellsOf(op.before) = ElemIds \cup LinkIds
    /\ \A l \in LinkIds : op.before.cells[l].source \in ElemIds

(***************************************************************************)
(* Replace and sync.  The cells carry one more attribute, label, that a    *)
(* payload may leave out; elements come in two types.                      *)
(***************************************************************************)
ElementType2 == "standard.Circle"
Labels == {"a", "b"}

\* the payloads for an element id: a type or none, a label or none
ElementPayloads ==
    LET bare == {Element(i) : i \in ElemIds}
                  \cup {[id |-> i, type |-> ElementType2] : i \in ElemIds}
                  \cup {Typeless(i) : i \in ElemIds}
    IN  bare \cup {assign(c, [label |-> l]) : c \in bare, l \in Labels}

\* the payloads for a link id: a link from or to an element or the link
\* before it, and a payload with a label only
LinkPayloads ==
    UNION {{Link(i, s, NoId) : s \in ElemIds \cup {i - 1}} : i \in LinkIds}
        \cup {Link(i, NoId, i - 1) : i \in LinkIds}
        \cup {[id |-> i, label |-> "a"] : i \in LinkIds}

Payloads == ElementPayloads \cup LinkPayloads
TypedPayloads == {c \in Payloads : isString(typeOf(c))}

DidWith(name, id, list, before, r) ==
    [name |-> name, id |-> id, list |-> list, names |-> {}, ok |-> r.ok,
     before |-> before, events |-> r.g.events]

\* graph._replaceCell(currentCell, newCellInit) on a cell of the graph
ReplaceCell(init) ==
    /\ has(this, init.id)
    /\ batchCount(this, "replace-cell") < MaxOpen
    /\ \E r \in {_replaceCell(this, init.id, init)} :
          Becomes(r.g, DidWith("replaceCell", init.id, <<init>>, this, r))

\* graph._syncCell(cellInit)
SyncCell(init) ==
    /\ batchCount(this, "replace-cell") < MaxOpen
    /\ \E r \in {_syncCell(this, init)} :
          Becomes(r.g, DidWith("syncCell", init.id, <<init>>, this, r))

NextSync ==
    \/ \E c \in TypedPayloads : AddCell(c)
    \/ \E c \in Payloads : ReplaceCell(c)
    \/ \E c \in Payloads : SyncCell(c)

SpecSync == Init /\ [][NextSync]_vars

\* cell carries every attribute of init with init's value, every other
\* attribute of current with current's value, and no further attribute
merged(cell, current, init) ==
    /\ DOMAIN cell = DOMAIN current \cup DOMAIN init
    /\ \A k \in DOMAIN init : cell[k] = init[k]
    /\ \A k \in DOMAIN current \ DOMAIN init : cell[k] = current[k]

\* C14 - replace preserves merged attributes: after _replaceCell of a cell
\* of the graph the graph holds, under the id, one cell whose attributes
\* are those of the replacement where the replacement has the key, and
\* those of the current cell elsewhere.
ReplaceMerges ==
    op.name = "replaceCell" /\ op.ok =>
        /\ has(this, op.id)
        /\ merged(cellCollection[op.id], op.before.cells[op.id], op.list[1])
        /\ cellsInGraph = cellsOf(op.before)

\* an element with a label was replaced by a payload of another type and no
\* label
ReplaceMergesWitness ==
    /\ op.name = "replaceCell" /\ op.ok
    /\ "label" \in DOMAIN op.before.cells[op.id]
    /\ "label" \notin DOMAIN op.list[1]
    /\ typeOf(op.list[1]) = ElementType2
    /\ op.before.cells[op.id].type = ElementType

\* the k-th event is the event name with a cell of that id as argument
isCellEvent(events, k, name, id) == events[k][1] = name /\ events[k][2].id = id

\* C15 - replace preserves connections: _replaceCell of a cell removes no
\* link and rewrites no endpoint, out[id] and in[id] hold the same links
\* before and after, the index is complete and without residue afterwards,
\* and the removal and the re-add happen, in that order, between the one
\* batch:start and the one batch:stop of 'replace-cell'.
ReplaceKeepsLinks ==
    op.name = "replaceCell" /\ op.ok =>
        /\ \A l \in cellsOf(op.before) \ {op.id} :
              has(this, l) /\ cellCollection[l] = op.before.cells[l]
        /\ _out[op.id] = op.before._out[op.id]
        /\ _in[op.id] = op.before._in[op.id]
        /\ IndexComplete /\ NoResidue
        /\ Len(op.events) = 4
        /\ op.events[1] = <<"batch:start", "replace-cell">>
        /\ op.events[2] = <<"remove", op.id>>
        /\ isCellEvent(op.events, 3, "add", op.id)
        /\ op.events[4] = <<"batch:stop", "replace-cell">>
        /\ batchCount(this, "replace-cell") = batchCount(op.before, "replace-cell")

\* an element with an outbound and an inbound link was replaced by a
\* payload of another type
ReplaceKeepsLinksWitness ==
    /\ op.name = "replaceCell" /\ op.ok /\ op.id \in ElemIds
    /\ op.before._out[op.id] # {} /\ op.before._in[op.id] # {}
    /\ cellCollection[op.id].type # op.before.cells[op.id].type

\* the collection and the index of the state are those of g
sameGraph(g) ==
    /\ cellCollection = g.cells
    /\ _out = g._out /\ _in = g._in /\ _nodes = g._nodes /\ _edges = g._edges

\* C16 - _syncCell is an upsert by id with three outcomes that exclude each
\* other: no cell of the id - the payload is added; a cell of the id and a
\* type in the payload that differs from the cell's - the cell is replaced
\* by the merge; otherwise the payload's attributes are set on the cell, the
\* attributes the payload leaves out keeping their values, with no removal
\* and no add.  No other cell changes.
SyncCellUpserts ==
    op.name = "syncCell" =>
        LET init == op.list[1]
            current == op.before.cells[op.id]
        IN  /\ \A i \in Ids \ {op.id} : cellCollection[i] = op.before.cells[i]
            /\ IF ~has(op.before, op.id)
               THEN IF isString(typeOf(init))
                    THEN /\ op.ok /\ has(this, op.id)
                         /\ \A k \in DOMAIN init : cellCollection[op.id][k] = init[k]
                         /\ Len(op.events) = 1
                         /\ isCellEvent(op.events, 1, "add", op.id)
                    ELSE ~op.ok /\ sameGraph(op.before) /\ op.events = <<>>
               ELSE /\ op.ok
                    /\ merged(cellCollection[op.id], current, init)
                    /\ IF "type" \in DOMAIN init /\ init.type # current.type
                       THEN /\ Len(op.events) = 4
                            /\ op.events[2] = <<"remove", op.id>>
                            /\ isCellEvent(op.events, 3, "add", op.id)
                       ELSE \A k \in 1 .. Len(op.events) :
                               op.events[k][1] \in {"change:source", "change:target"}

\* a payload without type and with another label was synced onto an element
SyncCellUpsertsWitness ==
    /\ op.name = "syncCell" /\ op.ok /\ has(op.before, op.id)
    /\ "type" \notin DOMAIN op.list[1]
    /\ "label" \in DOMAIN op.list[1] /\ "label" \in DOMAIN op.before.cells[op.id]
    /\ op.list[1].label # op.before.cells[op.id].label
    /\ cellCollection[op.id].type = ElementType2

(***************************************************************************)
(* syncCells with its options.                                             *)
(***************************************************************************)
\* graph.syncCells(cellInits, { remove, sort })
SyncCellsWith(cellInits, remove, sort) ==
    /\ batchCount(this, "sync-cells") < MaxOpen
    /\ batchCount(this, "replace-cell") < MaxOpen
    /\ \E r \in {syncCells(this, cellInits, remove, sort)} :
          Becomes(r.g, [name |-> "syncCells(opt)", id |-> NoId, list |-> cellInits,
                        names |-> {}, ok |-> r.ok, before |-> this,
                        events |-> r.g.events, remove |-> remove, sort |-> sort])

\* the payloads with a type, without label and, for a link, with a source
DiffPayloads ==
    {c \in TypedPayloads : "label" \notin DOMAIN c /\ (isLink(c) => c.source # NoId)}

NextSyncDiff ==
    \/ \E c \in DiffPayloads : AddCell(c)
    \/ \E cells \in SeqsUpTo(DiffPayloads, MaxLen), remove \in BOOLEAN :
          SyncCellsWith(cells, remove, TRUE)

SpecSyncDiff == Init /\ [][NextSyncDiff]_vars

\* the ids of a list of payloads, and the positions of the last payload of
\* each id
idsOf(list) == {list[k].id : k \in 1 .. Len(list)}
lastOfId(list) == {k \in 1 .. Len(list) : \A j \in (k + 1) .. Len(list) : list[j].id # list[k].id}

\* C17 as stated - sync diff: after syncCells(inits, { remove: true })
\* every cell whose id is not in inits is removed and every cell of inits is
\* in the graph with the incoming attributes, so that the ids of the graph
\* are the incoming ids; without remove every cell whose id is not in inits
\* stays, its attributes unchanged.
SyncDiff ==
    op.name = "syncCells(opt)" /\ op.ok =>
        IF op.remove
        THEN /\ cellsInGraph = idsOf(op.list)
             /\ \A k \in lastOfId(op.list) :
                   /\ has(this, op.list[k].id)
                   /\ \A a \in DOMAIN op.list[k] :
                         cellCollection[op.list[k].id][a] = op.list[k][a]
        ELSE \A i \in cellsOf(op.before) \ idsOf(op.list) :
                cellCollection[i] = op.before.cells[i]

(***************************************************************************)
(* syncCells and the sort of the layers.  The cells carry a layer          *)
(* attribute (the default layer when left out) and a z attribute.          *)
(***************************************************************************)
BackLayer == "back"
Layers == {DefaultLayer, BackLayer}

\* an element and a link, each as it is, in the back layer, or with a z
LayerPayloads ==
    LET bare == {Element(i) : i \in ElemIds} \cup {Link(Min(LinkIds), NoId, NoId)}
    IN  bare \cup {assign(c, [layer |-> BackLayer]) : c \in bare}
             \cup {assign(c, [z |-> 1]) : c \in bare}

NextSort ==
    \/ \E c \in LayerPayloads : AddCell(c)
    \/ \E cells \in SeqsUpTo(LayerPayloads, MaxLen), remove \in BOOLEAN, sort \in BOOLEAN :
          SyncCellsWith(cells, remove, sort)

SpecSort == Init /\ [][NextSort]_vars

\* the layers that, by the events, received an added cell or a cell whose z
\* or layer changed
layersTouched(events) ==
    {layer(events[k][2]) :
        k \in eventsNamed(events, "add") \cup eventsNamed(events, "change:z")
                \cup eventsNamed(events, "change:layer")}

\* one sort for each layer touched, none for another layer, each after the
\* last add, change and remove
sortsOncePerLayer(events) ==
    /\ \A l \in Layers :
          Cardinality(eventsOf(events, "sort", l)) = IF l \in layersTouched(events) THEN 1 ELSE 0
    /\ \A k \in eventsNamed(events, "sort"), j \in 1 .. Len(events) :
          events[j][1] \in {"add", "remove", "change:z", "change:layer", "batch:start"} => j < k

\* C18 as stated - with sort on, syncCells sorts once each layer that
\* received an added cell or a cell whose z or layer changed, no other
\* layer, not during the upserts and removals, and each sort comes after
\* the batch:stop of 'sync-cells'; with sort: false there is no sort.
SortsAfterBatchStop ==
    op.name = "syncCells(opt)" /\ op.ok =>
        IF op.sort
        THEN /\ sortsOncePerLayer(op.events)
             /\ \A k \in eventsNamed(op.events, "sort"),
                   j \in eventsOf(op.events, "batch:stop", "sync-cells") : j < k
        ELSE eventsNamed(op.events, "sort") = {}

\* C18 amended - as above, but each sort comes after the last upsert and
\* removal and before the batch:stop of 'sync-cells', which is the last
\* event of the call.
SortsBeforeBatchStop ==
    op.name = "syncCells(opt)" /\ op.ok =>
        /\ op.events[Len(op.events)] = <<"batch:stop", "sync-cells">>
        /\ IF op.sort
           THEN /\ sortsOncePerLayer(op.events)
                /\ \A k \in eventsNamed(op.events, "sort"),
                      j \in eventsOf(op.events, "batch:stop", "sync-cells") : k < j
           ELSE eventsNamed(op.events, "sort") = {}

\* a sync that added a cell to one layer and changed the z of a cell of the
\* other, with remove on, sorted both layers
SortsWitness ==
    /\ op.name = "syncCells(opt)" /\ op.ok /\ op.sort /\ op.remove
    /\ \E a \in eventsNamed(op.events, "add"), c \in eventsNamed(op.events, "change:z") :
          layer(op.events[a][2]) # layer(op.events[c][2])
    /\ Cardinality(eventsNamed(op.events, "sort")) = 2

(***************************************************************************)
(* The queries on a graph of two elements and the links between them,      *)
(* added in any order.                                                     *)
(***************************************************************************)
Flags == {Undefined, "true", "false"}
QueryElemIds == ElemIds \cup {Min(SpareIds)}

\* the elements, and the links from and to an element or a point
QueryInits ==
    {Element(i) : i \in QueryElemIds}
        \cup {Link(i, s, t) : i \in LinkIds,
                              s \in QueryElemIds \cup {NoId}, t \in QueryElemIds \cup {NoId}}

Asked(name, id, opt, r) ==
    [name |-> name, id |-> id, list |-> r.res, names |-> {}, ok |-> r.ok,
     inbound |-> opt.inbound, outbound |-> opt.outbound]

\* graph.getConnectedLinks(cell, { inbound, outbound }) for a cell of the graph
GetConnectedLinks(id, opt) ==
    /\ has(this, id)
    /\ \E res \in {getConnectedLinks(this, id, opt)} :
          Becomes(this, Asked("getConnectedLinks", id, opt, Result(res)))

\* graph.getNeighbors(element, { inbound, outbound }) for an element of the
\* graph
GetNeighbors(id, opt) ==
    /\ has(this, id) /\ isElement(getCell(this, id))
    /\ \E r \in {getNeighbors(this, id, opt)} :
          Becomes(this, Asked("getNeighbors", id, opt, r))

NextQuery ==
    \/ \E c \in QueryInits : AddCell(c)
    \/ \E id \in Ids, i \in Flags, o \in Flags :
          GetConnectedLinks(id, [inbound |-> i, outbound |-> o])
    \/ \E id \in Ids, i \in Flags, o \in Flags :
          GetNeighbors(id, [inbound |-> i, outbound |-> o])

SpecQuery == Init /\ [][NextQuery]_vars

\* the directions a query was asked with
asked == directions([inbound |-> op.inbound, outbound |-> op.outbound])
\* the list holds no id twice
noRepeat(list) == \A j, k \in 1 .. Len(list) : list[j] = list[k] => j = k
listed(list) == {list[k] : k \in 1 .. Len(list)}

\* C20 - getConnectedLinks(cell) without indirect and deep returns the
\* links of the graph whose source id or target id is cell.id - the source
\* when outbound is asked, the target when inbound is asked, both by
\* default - and no other, each once, a self-loop included.
ConnectedLinksExact ==
    op.name = "getConnectedLinks" =>
        /\ op.ok /\ noRepeat(op.list)
        /\ listed(op.list) =
              {l \in linksInGraph : \/ asked.outbound /\ cellCollection[l].source = op.id
                                    \/ asked.inbound /\ cellCollection[l].target = op.id}

\* the links of an element with a self-loop and a second link were asked
\* for, both directions on
ConnectedLinksWitness ==
    /\ op.name = "getConnectedLinks" /\ op.inbound = Undefined /\ op.outbound = Undefined
    /\ Len(op.list) = 2
    /\ \E l \in listed(op.list) : hasLoop(cellCollection[l])

\* the elements of the graph
elementIds == {i \in cellsInGraph : isElement(cellCollection[i])}

\* C19 as stated - getNeighbors(element) returns every neighbor element
\* once, also with parallel links; the element itself is in the result
\* exactly when it has a self-loop asked for; inbound asked, the sources of
\* the links that target the element are in the result, outbound asked, the
\* targets of the links that leave it, and nothing else.
NeighborsExact ==
    op.name = "getNeighbors" =>
        /\ op.ok /\ noRepeat(op.list)
        /\ listed(op.list) =
              {n \in elementIds :
                  \E l \in linksInGraph :
                      \/ /\ asked.inbound /\ cellCollection[l].target = op.id
                         /\ cellCollection[l].source = n
                      \/ /\ asked.outbound /\ cellCollection[l].source = op.id
                         /\ cellCollection[l].target = n}

(***************************************************************************)
(* The searches on a graph of three elements and two links between them.   *)
(***************************************************************************)
SearchElemIds == ElemIds \cup SpareIds

\* the elements, and the links from an element to an element
SearchInits ==
    {Element(i) : i \in SearchElemIds}
        \cup {Link(i, s, t) : i \in LinkIds, s \in SearchElemIds, t \in SearchElemIds}

\* no option, { outbound: true }, { inbound: true }
SearchOpts ==
    {NoOpt, [inbound |-> Undefined, outbound |-> "true"],
     [inbound |-> "true", outbound |-> Undefined]}

\* the iteratee returns false on no cell or on one element
StopSets == {{}} \cup {{i} : i \in SearchElemIds}

Searched(name, id, opt, stop, r) ==
    [name |-> name, id |-> id, list |-> r.list, dist |-> r.dist, names |-> {}, ok |-> r.ok,
     inbound |-> opt.inbound, outbound |-> opt.outbound, stop |-> stop]

\* graph.bfs(element, iteratee, opt)
Bfs(id, opt, stop) ==
    /\ has(this, id) /\ isElement(getCell(this, id))
    /\ \E r \in {bfs(this, id, opt, stop)} : Becomes(this, Searched("bfs", id, opt, stop, r))

\* graph.dfs(element, iteratee, opt)
Dfs(id, opt, stop) ==
    /\ has(this, id) /\ isElement(getCell(this, id))
    /\ \E r \in {dfs(this, id, opt, stop)} : Becomes(this, Searched("dfs", id, opt, stop, r))

NextSearch ==
    \/ \E c \in SearchInits : AddCell(c)
    \/ \E id \in SearchElemIds, opt \in SearchOpts, stop \in StopSets : Bfs(id, opt, stop)
    \/ \E id \in SearchElemIds, opt \in SearchOpts, stop \in StopSets : Dfs(id, opt, stop)

SpecSearch == Init /\ [][NextSearch]_vars

\* n is a neighbor of m in the directions asked
adjacent(m, n) ==
    \E l \in linksInGraph :
        \/ asked.outbound /\ cellCollection[l].source = m /\ cellCollection[l].target = n
        \/ asked.inbound /\ cellCollection[l].target = m /\ cellCollection[l].source = n

RECURSIVE reachable(_, _)
\* the elements reached from S through the cells on which the iteratee does
\* not return false
reachable(S, stop) ==
    With(S \cup {n \in elementIds : \E m \in S \ stop : adjacent(m, n)}, LAMBDA T :
         IF T = S THEN S ELSE reachable(T, stop))

\* C21 as stated - bfs and dfs terminate normally on every graph, invoke
\* the callback once for every cell reachable from the start through the
\* cells on which the callback did not return false, and for no other cell.
SearchVisitsReachable ==
    op.name \in {"bfs", "dfs"} =>
        /\ op.ok /\ noRepeat(op.list)
        /\ listed(op.list) = reachable({op.id}, op.stop)

(***************************************************************************)
(* The reachability predicates on the same graphs.                         *)
(***************************************************************************)
\* a call of isSuccessor or isPredecessor, the callbacks its search made and
\* its answer
Answered(name, a, b, r) ==
    [name |-> name, id |-> a, other |-> b, list |-> r.list, names |-> {}, ok |-> r.ok,
     res |-> (b # a /\ \E k \in 1 .. Len(r.list) : r.list[k] = b)]

\* graph.isSuccessor(elementA, elementB)
IsSuccessor(a, b) ==
    /\ has(this, a) /\ isElement(getCell(this, a))
    /\ has(this, b) /\ isElement(getCell(this, b))
    /\ \E r \in {isSuccessor(this, a, b)} : Becomes(this, Answered("isSuccessor", a, b, r))

\* graph.isPredecessor(elementA, elementB)
IsPredecessor(a, b) ==
    /\ has(this, a) /\ isElement(getCell(this, a))
    /\ has(this, b) /\ isElement(getCell(this, b))
    /\ \E r \in {isPredecessor(this, a, b)} : Becomes(this, Answered("isPredecessor", a, b, r))

NextReach ==
    \/ \E c \in SearchInits : AddCell(c)
    \/ \E a \in SearchElemIds, b \in SearchElemIds : IsSuccessor(a, b)
    \/ \E a \in SearchElemIds, b \in SearchElemIds : IsPredecessor(a, b)

SpecReach == Init /\ [][NextReach]_vars

\* C22 as stated - the search of isSuccessor(A, B) and of isPredecessor(A, B)
\* ends at the first match: once the callback was invoked on B, B other than
\* A, the search visits no further cell.
SearchEndsAtMatch ==
    op.name \in {"isSuccessor", "isPredecessor"} /\ op.res =>
        op.list[Len(op.list)] = op.other

(***************************************************************************)
(* Subgraph extraction, on the graphs of one element and two links whose   *)
(* ends are the element, a link or a point.                                *)
(***************************************************************************)
SeedLists == SeqsUpTo(ElemIds \cup LinkIds, MaxLen)

\* a call of getSubgraph and a second call on its result
Extracted(cells, r, again) ==
    [name |-> "getSubgraph", id |-> NoId, seeds |-> cells, list |-> r.subgraph,
     names |-> {}, ok |-> r.ok, again |-> again.subgraph, okAgain |-> again.ok]

\* graph.getSubgraph(graph.getSubgraph(cells))
GetSubgraph(cells) ==
    /\ \A k \in 1 .. Len(cells) : has(this, cells[k])
    /\ \E r \in {getSubgraph(this, cells)} :
          \E again \in {IF r.ok THEN getSubgraph(this, r.subgraph) ELSE r} :
              Becomes(this, Extracted(cells, r, again))

NextSubgraph ==
    \/ \E c \in ValidInits : AddCell(c)
    \/ \E cells \in SeedLists : GetSubgraph(cells)

SpecSubgraph == Init /\ [][NextSubgraph]_vars

\* C23 as stated - whenever getSubgraph(S) and getSubgraph of its result
\* complete, the two results have the same set of ids: the second pass
\* pulls in no new cell.
SubgraphIdempotent ==
    op.name = "getSubgraph" /\ op.ok /\ op.okAgain => listed(op.again) = listed(op.list)

\* some link of the graph has an end that names no cell of the graph
dangling ==
    \E l \in linksInGraph :
        \E end \in {cellCollection[l].source, cellCollection[l].target} :
            end # NoId /\ end \notin cellsInGraph

\* C24 as stated - on a graph with a link whose source or target id names
\* no cell, getConnectedLinks and getNeighbors complete without raising an
\* error, and the result holds cells of the graph only.
DanglingEndsDegrade ==
    dangling /\ op.name \in {"getConnectedLinks", "getNeighbors"} =>
        op.ok /\ listed(op.list) \subseteq cellsInGraph

\* C25 - after any sequence of mutations getSources() is exactly the
\* elements of the graph that no link of the graph targets and getSinks()
\* exactly the elements that no link of the graph leaves; isSource(e) and
\* isSink(e) agree with membership in them for every element e of the graph.
SourcesAndSinks ==
    /\ noRepeat(getSources(this)) /\ noRepeat(getSinks(this))
    /\ listed(getSources(this)) =
          {e \in elementsInGraph : \A l \in linksInGraph : cellCollection[l].target # e}
    /\ listed(getSinks(this)) =
          {e \in elementsInGraph : \A l \in linksInGraph : cellCollection[l].source # e}
    /\ \A e \in elementsInGraph :
          /\ isSource(this, e) <=> e \in listed(getSources(this))
          /\ isSink(this, e) <=> e \in listed(getSinks(this))

\* a link was retargeted to the element, which is then a sink and no source
SourcesAndSinksWitness ==
    /\ op.name = "set:target" /\ cellCollection[op.id].target \in elementsInGraph
    /\ getSources(this) = <<>>
    /\ getSinks(this) # <<>>

(***************************************************************************)
(* Loading documents.                                                      *)
(***************************************************************************)
\* the documents: with or without cells, with or without cellLayers, with or
\* without a further attribute
LayerLists == {<<DefaultLayer>>, <<DefaultLayer, BackLayer>>}
AttrSets == {{}, {"name"}}
JsonDocs ==
    {[attrs |-> attrs] : attrs \in AttrSets}
        \cup {[cellLayers |-> cellLayers, attrs |-> attrs] :
                 cellLayers \in LayerLists, attrs \in AttrSets}
        \cup {[cells |-> cells, attrs |-> attrs] : cells \in ResetLists, attrs \in AttrSets}
        \cup {[cells |-> cells, cellLayers |-> cellLayers, attrs |-> attrs] :
                 cells \in ResetLists, cellLayers \in LayerLists, attrs \in AttrSets}

\* graph.fromJSON(json)
FromJSON(json) ==
    \E r \in {fromJSON(this, json)} :
        Becomes(r.g, [name |-> "fromJSON", id |-> NoId, list |-> <<>>, names |-> {},
                      ok |-> r.ok, before |-> this, events |-> r.g.events, json |-> json])

NextJSON == \E json \in JsonDocs : FromJSON(json)

SpecJSON == Init /\ [][NextJSON]_vars

\* C26 - fromJSON on a document without cells fails before anything is
\* modified: cells, index and batches are as before and nothing was
\* notified, neither of the layers nor of the attributes; on a document with
\* cells and cellLayers the layers are reset before the cells are.
FromJSONOrder ==
    op.name = "fromJSON" =>
        /\ ~member(op.json, "cells") =>
              ~op.ok /\ sameGraph(op.before) /\ _batches = op.before._batches
                     /\ op.events = <<>>
        /\ member(op.json, "cells") /\ member(op.json, "cellLayers") =>
              /\ op.ok
              /\ eventsNamed(op.events, "layers:reset") # {}
              /\ eventsNamed(op.events, "reset") # {}
              /\ \A j \in eventsNamed(op.events, "layers:reset") :
                    \A k \in eventsNamed(op.events, "reset") : j < k

\* a document with cells and layers was loaded into a graph that held cells
FromJSONWitness ==
    /\ op.name = "fromJSON" /\ op.ok
    /\ member(op.json, "cellLayers")
    /\ cellsOf(op.before) # {} /\ cellsInGraph # {} /\ cellsInGraph # cellsOf(op.before)

(***************************************************************************)
(* The batches of the lifecycle operations, on the graphs of an element    *)
(* and the links from it to itself.                                        *)
(***************************************************************************)
\* graph.addCells(cells), with the notifications it made
AddCellsBatch(cells) ==
    \E r \in {addCells(this, cells)} : Becomes(r.g, DidWith("graph.addCells", NoId, cells, this, r))

\* graph.resetCells(cells), with the notifications it made
ResetCellsBatch(cells) ==
    \E r \in {resetCells(this, cells)} :
        Becomes(r.g, DidWith("graph.resetCells", NoId, cells, this, r))

\* graph.removeCells(cells) with cells of the graph, with the notifications
\* it made
RemoveCellsBatch(ids) ==
    /\ \A k \in 1 .. Len(ids) : has(this, ids[k])
    /\ \E r \in {Return(removeCells(this, ids, Opt(FALSE, FALSE)))} :
          Becomes(r.g, DidWith("graph.removeCells", NoId, ids, this, r))

\* graph.syncCells(cellInits, { remove }), with the notifications it made
SyncCellsBatch(cellInits, remove) ==
    \E r \in {syncCells(this, cellInits, remove, TRUE)} :
        Becomes(r.g, DidWith("graph.syncCells", NoId, cellInits, this, r))

\* the lists of inits, and of ids, that name no cell twice
BatchLists ==
    {cells \in SeqsUpTo(LoopInits, MaxLen) :
        \A j, k \in 1 .. Len(cells) : cells[j].id = cells[k].id => j = k}
BatchIdLists ==
    {ids \in SeqsUpTo(ElemIds \cup LinkIds, MaxLen) :
        \A j, k \in 1 .. Len(ids) : ids[j] = ids[k] => j = k}

NextBatches ==
    \/ \E cells \in BatchLists : AddCellsBatch(cells)
    \/ \E cells \in BatchLists : ResetCellsBatch(cells)
    \/ \E ids \in BatchIdLists : RemoveCellsBatch(ids)
    \/ \E cells \in BatchLists, remove \in BOOLEAN : SyncCellsBatch(cells, remove)
    \/ \E c \in LoopInits : ReplaceCell(c)
    \/ ClearGraph

SpecBatches == Init /\ [][NextBatches]_vars

\* the batch an operation wraps itself in
ownBatch(name) ==
    CASE name = "graph.addCells" -> "add"
      [] name = "graph.resetCells" -> "reset"
      [] name = "graph.removeCells" -> "remove"
      [] name = "graph.syncCells" -> "sync-cells"
      [] name = "replaceCell" -> "replace-cell"
      [] OTHER -> "clear"

BatchedOps ==
    {"graph.addCells", "graph.resetCells", "graph.removeCells", "graph.syncCells",
     "replaceCell", "graph.clear"}

batchEvents(events) == eventsNamed(events, "batch:start") \cup eventsNamed(events, "batch:stop")
collectionEvents(events) ==
    eventsNamed(events, "add") \cup eventsNamed(events, "remove")
        \cup eventsNamed(events, "reset")

\* the counter of batch b when the k-th notification of the call was made
countAt(before, events, b, k) ==
    batchCount(before, b)
        + Cardinality({j \in eventsOf(events, "batch:start", b) : j < k})
        - Cardinality({j \in eventsOf(events, "batch:stop", b) : j < k})

\* one start and one stop of the own batch, the collection events between
\* them while the batch is active, and the counters as before
wrappedInBatch(b) ==
    /\ Cardinality(eventsOf(op.events, "batch:start", b)) = 1
    /\ Cardinality(eventsOf(op.events, "batch:stop", b)) = 1
    /\ \A k \in collectionEvents(op.events) :
          /\ \E j \in eventsOf(op.events, "batch:start", b) : j < k
          /\ \E j \in eventsOf(op.events, "batch:stop", b) : k < j
          /\ countAt(op.before, op.events, b, k) > 0
    /\ \A n \in DOMAIN _batches \cup DOMAIN op.before._batches :
          batchCount(this, n) = batchCount(op.before, n)

\* addCells or removeCells was called with an empty list
emptyInput == op.name \in {"graph.addCells", "graph.removeCells"} /\ op.list = <<>>

\* C27 as stated - addCells, resetCells, removeCells on a non-empty list,
\* syncCells, replace and clear, when they complete, each make one batch
\* start and one batch stop of their own name, with every add, remove and
\* reset of the collection between the two, and leave every batch counter
\* as it was; addCells and removeCells on an empty list make no batch
\* notification.
EveryOperationBatched ==
    op.name \in BatchedOps /\ op.ok =>
        IF emptyInput THEN batchEvents(op.events) = {} ELSE wrappedInBatch(ownBatch(op.name))

\* C27 - the same, where clear() on a graph without cells makes no
\* notification at all.
OperationsBatched ==
    op.name \in BatchedOps /\ op.ok =>
        IF emptyInput \/ (op.name = "graph.clear" /\ cellsOf(op.before) = {})
        THEN op.events = <<>>
        ELSE wrappedInBatch(ownBatch(op.name))

\* syncCells replaced a cell and removed another, inside its own batch
OperationsBatchedWitness ==
    /\ op.name = "graph.syncCells" /\ op.ok
    /\ eventsNamed(op.events, "remove") # {} /\ eventsNamed(op.events, "add") # {}
    /\ Cardinality(batchEvents(op.events)) >= 2

(***************************************************************************)
(* Indirect links, on the graphs of one element and two links whose ends   *)
(* are the element, a link or a point.                                     *)
(***************************************************************************)
\* graph.getConnectedLinks(cell, { indirect: true, inbound, outbound })
GetConnectedLinksIndirect(id, opt) ==
    /\ has(this, id)
    /\ \E ls \in {getConnectedLinksIndirect(this, id, opt)} :
          Becomes(this, Asked("getConnectedLinks(indirect)", id, opt,
                              [ok |-> ls.ok, res |-> ls.links]))

NextIndirect ==
    \/ \E c \in ValidInits : AddCell(c)
    \/ \E id \in ElemIds \cup LinkIds, opt \in SearchOpts : GetConnectedLinksIndirect(id, opt)

SpecIndirect == Init /\ [][NextIndirect]_vars

\* C28 as stated - getConnectedLinks(cell, { indirect: true }) returns on
\* every graph, also where links are attached to each other in a cycle, and
\* returns every link at most once.
IndirectLinksOnce ==
    op.name = "getConnectedLinks(indirect)" => op.ok /\ noRepeat(op.list)

(***************************************************************************)
(* Links of embedded cells, on the graphs of three elements, the second    *)
(* and the third possibly embedded, and two links between elements.        *)
(***************************************************************************)
Embedded(i, p) == [id |-> i, type |-> ElementType, parent |-> p]

\* the elements, free or embedded in an element of a smaller id, and the
\* links from an element to an element
DeepInits ==
    SearchInits
        \cup UNION {{Embedded(i, p) : p \in {q \in SearchElemIds : q < i}} : i \in SpareIds}

\* graph.getConnectedLinks(cell, { deep: true, includeEnclosed, inbound,
\* outbound })
GetConnectedLinksDeep(id, opt, includeEnclosed) ==
    /\ has(this, id)
    /\ \E res \in {getConnectedLinksDeep(this, id, opt, includeEnclosed)} :
          Becomes(this, [name |-> "getConnectedLinks(deep)", id |-> id, list |-> res,
                         names |-> {}, ok |-> TRUE, inbound |-> opt.inbound,
                         outbound |-> opt.outbound, includeEnclosed |-> includeEnclosed])

NextDeep ==
    \/ \E c \in DeepInits : AddCell(c)
    \/ \E id \in ElemIds \cup {Min(SpareIds)}, opt \in SearchOpts, includeEnclosed \in BOOLEAN :
          GetConnectedLinksDeep(id, opt, includeEnclosed)

SpecDeep == Init /\ [][NextDeep]_vars

\* the elements embedded in the cell asked about
embeddedElementsOf(id) == {i \in embeddedIn(this, {id}) : isElement(cellCollection[i])}

\* the link leaves, or targets, a cell of S in a direction asked
touches(l, S) ==
    \/ asked.outbound /\ cellCollection[l].source \in S
    \/ asked.inbound /\ cellCollection[l].target \in S

\* C29 - getConnectedLinks(cell, { deep: true }) returns the links of the
\* cell and the links touching an element embedded in it, directly or
\* recursively, each once; without includeEnclosed no link the deep walk
\* adds has both ends among the embedded elements, with includeEnclosed
\* every such link is returned.
DeepLinks ==
    op.name = "getConnectedLinks(deep)" =>
        /\ noRepeat(op.list)
        /\ listed(op.list) =
              {l \in linksInGraph :
                  \/ touches(l, {op.id})
                  \/ /\ touches(l, embeddedElementsOf(op.id))
                     /\ \/ op.includeEnclosed
                        \/ ~enclosed(this, embeddedElementsOf(op.id), l)}

\* without includeEnclosed, the deep walk returned the link from an embedded
\* element to a free one and left out a link enclosed in the cell
DeepLinksWitness ==
    /\ op.name = "getConnectedLinks(deep)" /\ ~op.includeEnclosed
    /\ \E l \in listed(op.list) : ~touches(l, {op.id})
    /\ \E l \in linksInGraph : enclosed(this, embeddedElementsOf(op.id), l)

(***************************************************************************)
(* Breadth-first distances, on the graphs of three elements and three      *)
(* links between distinct elements.                                        *)
(***************************************************************************)
BfsInits ==
    {Element(i) : i \in SearchElemIds}
        \cup {c \in {Link(i, s, t) : i \in LinkIds \cup SpareLinkIds,
                                     s \in SearchElemIds, t \in SearchElemIds} :
                 c.source # c.target}

NextBfs ==
    \/ \E c \in BfsInits : AddCell(c)
    \/ \E id \in SearchElemIds, opt \in SearchOpts : Bfs(id, opt, {})

SpecBfs == Init /\ [][NextBfs]_vars

\* the positions in the visiting order of the cells whose expansion
\* enqueued the cell visited k-th, before it was visited
enqueuers(k) ==
    {j \in 1 .. (k - 1) : op.list[j] \notin op.stop /\ adjacent(op.list[j], op.list[k])}

\* C30 as stated - bfs passes distance 0 for the start cell and, for every
\* other visited cell, one more than the distance passed for the cell whose
\* expansion enqueued it first.
BfsDistanceOfFirstDiscovery ==
    op.name = "bfs" /\ op.ok =>
        \A k \in 1 .. Len(op.list) :
            IF k = 1 THEN op.dist[k] = 0
            ELSE /\ enqueuers(k) # {}
                 /\ op.dist[k] = op.dist[Min(enqueuers(k))] + 1

(***************************************************************************)
(* Depth-first order, on the graphs of four elements and three links: one  *)
(* link leaves the first element, one leaves it or its first neighbor, one *)
(* joins the other elements.                                               *)
(***************************************************************************)
DfsElemIds == SearchElemIds \cup FarIds

DfsInits ==
    {Element(i) : i \in DfsElemIds}
        \cup {Link(Min(LinkIds), s, t) : s \in ElemIds, t \in SpareIds}
        \cup {Link(Min(LinkIds) + 1, s, t) : s \in ElemIds \cup {Min(SpareIds)},
                                            t \in (SpareIds \ {Min(SpareIds)}) \cup FarIds}
        \cup {Link(i, s, t) : i \in SpareLinkIds, s \in SpareIds, t \in FarIds \cup ElemIds}

\* no option, { outbound: true }
DfsOpts == {NoOpt, [inbound |-> Undefined, outbound |-> "true"]}

\* the iteratee returns false on no cell or on one of the further elements
DfsStopSets == {{}} \cup {{i} : i \in SpareIds}

NextDfs ==
    \/ \E c \in DfsInits : AddCell(c)
    \/ \E id \in DfsElemIds, opt \in DfsOpts, stop \in DfsStopSets : Dfs(id, opt, stop)

SpecDfs == Init /\ [][NextDfs]_vars

RECURSIVE visit(_, _, _, _, _), visitEach(_, _, _, _, _)
\* the recursive depth-first walk: a cell not seen yet is visited, and when
\* the iteratee does not return false on it, its neighbors are walked one
\* after the other in the order getNeighbors lists them
visit(g, opt, stop, id, seen) ==
    IF \E k \in 1 .. Len(seen) : seen[k] = id THEN seen
    ELSE IF id \in stop THEN Append(seen, id)
    ELSE With(getNeighbors(g, id, opt), LAMBDA r :
              visitEach(g, opt, stop, IF r.ok THEN r.res ELSE <<>>, Append(seen, id)))

visitEach(g, opt, stop, neighbors, seen) ==
    IF neighbors = <<>> THEN seen
    ELSE visitEach(g, opt, stop, Tail(neighbors), visit(g, opt, stop, Head(neighbors), seen))

\* C31 - a dfs that completes visits the cells in the order of the
\* recursive depth-first walk: the first-listed unvisited neighbor of an
\* expanded cell and all that is reached from it come before the cell's
\* next-listed neighbor.
DfsPreOrder ==
    op.name = "dfs" /\ op.ok =>
        op.list = visit(this, [inbound |-> op.inbound, outbound |-> op.outbound],
                        op.stop, op.id, <<>>)

\* a dfs visited the start, its first neighbor, a neighbor of that one that
\* is no neighbor of the start, and only then the second neighbor of the
\* start
DfsPreOrderWitness ==
    /\ op.name = "dfs" /\ op.ok /\ op.stop = {} /\ Len(op.list) = 4
    /\ adjacent(op.list[1], op.list[2]) /\ adjacent(op.list[1], op.list[4])
    /\ adjacent(op.list[2], op.list[3]) /\ ~adjacent(op.list[1], op.list[3])

(***************************************************************************)
(* Successors and predecessors, on the graphs of three elements and two    *)
(* links between them.                                                     *)
(***************************************************************************)
\* {}, { breadthFirst: true }
BranchOpts ==
    {[inbound |-> Undefined, outbound |-> Undefined, breadthFirst |-> b] :
        b \in {Undefined, "true"}}

\* a call of getSuccessors or getPredecessors, its result, and the result of
\* the same call with the other kind of search
Branched(name, id, opt, r, other) ==
    [name |-> name, id |-> id, list |-> r.res, names |-> {}, ok |-> r.ok,
     breadthFirst |-> opt.breadthFirst, other |-> other.res, okOther |-> other.ok]

otherSearch(opt) ==
    [opt EXCEPT !.breadthFirst = IF truthy(@) THEN Undefined ELSE "true"]

\* graph.getSuccessors(element, opt)
GetSuccessors(id, opt) ==
    /\ has(this, id) /\ isElement(getCell(this, id))
    /\ \E r \in {getSuccessors(this, id, opt)} :
          \E other \in {getSuccessors(this, id, otherSearch(opt))} :
              Becomes(this, Branched("getSuccessors", id, opt, r, other))

\* graph.getPredecessors(element, opt)
GetPredecessors(id, opt) ==
    /\ has(this, id) /\ isElement(getCell(this, id))
    /\ \E r \in {getPredecessors(this, id, opt)} :
          \E other \in {getPredecessors(this, id, otherSearch(opt))} :
              Becomes(this, Branched("getPredecessors", id, opt, r, other))

NextBranch ==
    \/ \E c \in SearchInits : AddCell(c)
    \/ \E id \in SearchElemIds, opt \in BranchOpts : GetSuccessors(id, opt)
    \/ \E id \in SearchElemIds, opt \in BranchOpts : GetPredecessors(id, opt)

SpecBranch == Init /\ [][NextBranch]_vars

\* a link of the graph leads from element m to element n
linked(m, n) ==
    \E l \in linksInGraph : cellCollection[l].source = m /\ cellCollection[l].target = n

RECURSIVE after(_, _)
\* the elements reached from the elements of S by one or more links followed
\* from source to target (forward) or from target to source
after(S, forward) ==
    With(S \cup {n \in elementIds :
                    \E m \in S : IF forward THEN linked(m, n) ELSE linked(n, m)},
         LAMBDA T : IF T = S THEN S ELSE after(T, forward))

\* the elements one link away from id
step(id, forward) ==
    {n \in elementIds : IF forward THEN linked(id, n) ELSE linked(n, id)}

\* C32 as stated - getSuccessors(e) returns, each once and never e itself,
\* exactly the elements reached from e by one or more links followed from
\* source to target, getPredecessors(e) the same for links followed from
\* target to source, and the set is the same for both kinds of search.
BranchExact ==
    op.name \in {"getSuccessors", "getPredecessors"} =>
        /\ op.ok /\ op.okOther /\ noRepeat(op.list)
        /\ listed(op.list) =
              after(step(op.id, op.name = "getSuccessors"), op.name = "getSuccessors")
                  \ {op.id}
        /\ listed(op.other) = listed(op.list)

\* the end carries an id, and the id is the id of a cell returned
resolves(end) == end # NoId /\ end \in listed(op.list)

\* the link has an end on an element returned
connected(l) ==
    \E e \in listed(op.list) :
        /\ isElement(cellCollection[e])
        /\ e \in {cellCollection[l].source, cellCollection[l].target}

\* C33 as stated - getSubgraph(cells) returns every seed, no cell twice,
\* and with every link each end of it that carries an id; a link that is no
\* seed is returned exactly when it is connected to an element returned and
\* its source and its target both resolve to cells returned.
SubgraphClosed ==
    op.name = "getSubgraph" =>
        /\ op.ok /\ noRepeat(op.list)
        /\ listed(op.seeds) \subseteq listed(op.list)
        /\ \A l \in listed(op.list) \cap linksInGraph :
              \A end \in {cellCollection[l].source, cellCollection[l].target} :
                  end # NoId => end \in listed(op.list)
        /\ \A l \in linksInGraph \ listed(op.seeds) :
              l \in listed(op.list) <=>
                  /\ connected(l)
                  /\ resolves(cellCollection[l].source)
                  /\ resolves(cellCollection[l].target)

(***************************************************************************)
(* The z attribute on addCell and resetCells, on the graphs of three       *)
(* elements in two layers.  The other specifications leave the z that      *)
(* addCell assigns out of the cells: no operation they call reads it.      *)
(***************************************************************************)
\* the z a cell init may specify
GivenZ == {0, NumSpare}

\* an element as it is, in the back layer, or with a z
ZInits ==
    LET bare == {Element(i) : i \in SearchElemIds}
    IN  bare \cup {assign(c, [layer |-> BackLayer]) : c \in bare}
             \cup {assign(c, [z |-> z]) : c \in bare, z \in GivenZ}

\* the lists of the further elements in the default layer, no id twice
ZLists ==
    {cells \in SeqsUpTo({c \in ZInits : c.id \in SpareIds /\ layer(c) = DefaultLayer},
                        MaxLen) :
        \A j, k \in 1 .. Len(cells) : cells[j].id = cells[k].id => j = k}

\* graph.addCell(c), with the graph before the call
AddPrepared(c) ==
    \E r \in {addPrepared(this, c)} :
        Becomes(r.g, DidWith("graph.addCell", c.id, <<c>>, this, r))

\* graph.resetCells(cells), with the graph before the call
ResetPrepared(cells) ==
    \E r \in {resetCells(this, cells)} :
        Becomes(r.g, DidWith("graph.resetCells", NoId, cells, this, r))

NextZ ==
    \/ \E c \in ZInits : AddPrepared(c)
    \/ \E cells \in ZLists : ResetPrepared(cells)

SpecZ == Init /\ [][NextZ]_vars

\* the call added the cell op.list[1], specified without z, to the graph
addedBare(o) ==
    /\ o.name = "graph.addCell" /\ o.ok /\ ~has(o.before, o.id)
    /\ "z" \notin DOMAIN o.list[1]

\* the cells of the layer that carried a z before the call
peers(o, layerId) ==
    {i \in Ids : /\ has(o.before, i) /\ layer(getCell(o.before, i)) = layerId
                 /\ "z" \in DOMAIN getCell(o.before, i)}

\* the added cell has the z it specified, or else one more than the highest
\* z of its layer
AddAssignsZ ==
    op.name = "graph.addCell" /\ op.ok /\ ~has(op.before, op.id) =>
        /\ "z" \in DOMAIN cellCollection[op.id]
        /\ "z" \in DOMAIN op.list[1] => cellCollection[op.id].z = op.list[1].z
        /\ addedBare(op) /\ peers(op, layer(op.list[1])) # {} =>
              /\ \A i \in peers(op, layer(op.list[1])) :
                    cellCollection[op.id].z > getCell(op.before, i).z
              /\ \E i \in peers(op, layer(op.list[1])) :
                    cellCollection[op.id].z = getCell(op.before, i).z + 1

\* every cell after resetCells has the z of its init, or none
ResetKeepsZ ==
    op.name = "graph.resetCells" /\ op.ok =>
        \A i \in cellsInGraph :
            \E k \in 1 .. Len(op.list) :
                /\ op.list[k].id = i
                /\ ("z" \in DOMAIN cellCollection[i]) = ("z" \in DOMAIN op.list[k])
                /\ "z" \in DOMAIN op.list[k] => cellCollection[i].z = op.list[k].z

\* two cells without z added one after the other to one layer: the second
\* gets the higher z
AddsIncrease ==
    addedBare(op) /\ addedBare(op') /\ layer(op.list[1]) = layer(op'.list[1]) =>
        cellCollection'[op'.id].z > cellCollection[op.id].z

\* C34 - addCell gives a cell that specifies no z the highest z of its
\* layer plus one and leaves a specified z as it is, so that cells added
\* one after the other without z to one layer get increasing z; resetCells
\* assigns no z.
ZIndexPolicy == [](AddAssignsZ /\ ResetKeepsZ) /\ [][AddsIncrease]_vars

\* a cell without z was added to a layer whose cells, more than one, got
\* their z from addCell
ZIndexPolicyWitness ==
    /\ addedBare(op) /\ Cardinality(peers(op, layer(op.list[1]))) > 1
    /\ {getCell(op.before, i).z : i \in peers(op, layer(op.list[1]))}
          = 1 .. Cardinality(peers(op, layer(op.list[1])))
    /\ cellCollection[op.id].z = Cardinality(peers(op, layer(op.list[1]))) + 1

(***************************************************************************)
(* isNeighbor against getNeighbors, on the graphs of the queries.          *)
(***************************************************************************)
\* a call of isNeighbor, its answer, and what getNeighbors gives for the
\* same element and options
Compared(a, b, opt, res, r) ==
    [name |-> "isNeighbor", id |-> a, other |-> b, res |-> res, list |-> r.res,
     names |-> {}, ok |-> r.ok, inbound |-> opt.inbound, outbound |-> opt.outbound]

\* graph.isNeighbor(elementA, elementB, { inbound, outbound })
IsNeighbor(a, b, opt) ==
    /\ has(this, a) /\ isElement(getCell(this, a))
    /\ has(this, b) /\ isElement(getCell(this, b))
    /\ \E res \in {isNeighbor(this, a, b, opt)} :
          \E r \in {getNeighbors(this, a, opt)} :
              Becomes(this, Compared(a, b, opt, res, r))

NextNeighbor ==
    \/ \E c \in QueryInits : AddCell(c)
    \/ \E a \in QueryElemIds, b \in QueryElemIds, i \in Flags, o \in Flags :
          IsNeighbor(a, b, [inbound |-> i, outbound |-> o])

SpecNeighbor == Init /\ [][NextNeighbor]_vars

\* C35 as stated - for all elements A and B of the graph, A = B included,
\* and all inbound/outbound options, isNeighbor(A, B, opt) is true exactly
\* when B is listed by getNeighbors(A, opt).
NeighborAgrees ==
    op.name = "isNeighbor" => op.ok /\ (op.res <=> op.other \in listed(op.list))

(***************************************************************************)
(* isSuccessor and isPredecessor against getSuccessors and                 *)
(* getPredecessors, on the graphs of the searches.                         *)
(***************************************************************************)
\* what isSuccessor (isPredecessor) returns after the search r: true when
\* the iteratee met elementB, elementB other than elementA
found(r, a, b) == b # a /\ \E k \in 1 .. Len(r.list) : r.list[k] = b

\* a call of isSuccessor or isPredecessor with its answer, the list of
\* getSuccessors or getPredecessors for elementA, and the answer of the
\* opposite call with the elements exchanged
Related(name, a, b, r, all, mirror) ==
    [name |-> name, id |-> a, other |-> b, names |-> {}, ok |-> r.ok, res |-> found(r, a, b),
     list |-> all.res, okList |-> all.ok, mirror |-> found(mirror, b, a),
     okMirror |-> mirror.ok]

\* opt left out
NoBranchOpt == [inbound |-> Undefined, outbound |-> Undefined, breadthFirst |-> Undefined]

\* graph.isSuccessor(elementA, elementB), graph.getSuccessors(elementA) and
\* graph.isPredecessor(elementB, elementA)
IsSuccessorOf(a, b) ==
    /\ has(this, a) /\ isElement(getCell(this, a))
    /\ has(this, b) /\ isElement(getCell(this, b))
    /\ \E r \in {isSuccessor(this, a, b)} :
          \E all \in {getSuccessors(this, a, NoBranchOpt)} :
              \E mirror \in {isPredecessor(this, b, a)} :
                  Becomes(this, Related("isSuccessor", a, b, r, all, mirror))

\* graph.isPredecessor(elementA, elementB), graph.getPredecessors(elementA)
\* and graph.isSuccessor(elementB, elementA)
IsPredecessorOf(a, b) ==
    /\ has(this, a) /\ isElement(getCell(this, a))
    /\ has(this, b) /\ isElement(getCell(this, b))
    /\ \E r \in {isPredecessor(this, a, b)} :
          \E all \in {getPredecessors(this, a, NoBranchOpt)} :
              \E mirror \in {isSuccessor(this, b, a)} :
                  Becomes(this, Related("isPredecessor", a, b, r, all, mirror))

NextKin ==
    \/ \E c \in SearchInits : AddCell(c)
    \/ \E a \in SearchElemIds, b \in SearchElemIds : IsSuccessorOf(a, b)
    \/ \E a \in SearchElemIds, b \in SearchElemIds : IsPredecessorOf(a, b)

SpecKin == Init /\ [][NextKin]_vars

\* C36 as stated - isSuccessor(A, B) is true exactly when getSuccessors(A)
\* lists B, isPredecessor(A, B) exactly when getPredecessors(A) lists B,
\* both are false for B = A, and for distinct elements isSuccessor(A, B)
\* equals isPredecessor(B, A).
KinAgrees ==
    op.name \in {"isSuccessor", "isPredecessor"} =>
        /\ op.ok /\ op.okList /\ op.okMirror
        /\ op.res <=> op.other \in listed(op.list)
        /\ op.other = op.id => ~op.res
        /\ op.other # op.id => (op.res <=> op.mirror)

====
